---- MODULE Spec2Model ----
(***************************************************************************)
(* A model of v8_derive: the conversion between native (Rust) values and   *)
(* the dynamic values of the V8 engine, and the derive macros that         *)
(* generate the conversions of a record from its field list.               *)
(*                                                                         *)
(* Dynamic values are records with a tag; native values are booleans,      *)
(* integers, strings, doubles (see Fin/NaN), Option (None/Some),           *)
(* sequences and records (functions from field names to values).           *)
(***************************************************************************)
EXTENDS Integers, Sequences, FiniteSets, TLC

VARIABLES
    pc,         \* position of the running call: "idle", "decode", "encode", "encoded", "derive", "done"
    op,         \* the operation that was called
    ty,         \* the native type the call converts from or to
    key_name,   \* the field name given to get_field_as / get_optional_field_as
    js_input,   \* the dynamic value being decoded
    native,     \* the native value being encoded
    idx,        \* index of the next field of the record (1-based)
    built,      \* the fields of the record decoded so far
    object,     \* the dynamic object the record's encoder is filling
    created,    \* number of dynamic objects the record's own encoder has created
    log,        \* decode: the names of the fields accessed; encode: the property names written
    calls,      \* the dynamic values the decoder (parse_fn / T::try_from_value) was invoked on
    ret,        \* the Result the decode returned
    item,       \* the derive macro's input
    implementation, \* the field implementations the derive macro has collected
    outcome     \* what the derive macro did: "none", "emitted" or "panicked"

vars == <<pc, op, ty, key_name, js_input, native, idx, built, object, created, log, calls,
          ret, item, implementation, outcome>>

---------------------------------------------------------------------------
(* Rust: Option and Result, and the errors of errors::Error.                *)

None == [some |-> FALSE]
Some(x) == [some |-> TRUE, v |-> x]
Ok(x) == [ok |-> TRUE, val |-> x]
Err(e) == [ok |-> FALSE, err |-> e]

ExpectedObject == [kind |-> "ExpectedObject"]
ExpectedArray == [kind |-> "ExpectedArray"]
ExpectedI32 == [kind |-> "ExpectedI32"]
ExpectedF64 == [kind |-> "ExpectedF64"]
ExpectedU32 == [kind |-> "ExpectedU32"]
ExpectedI64 == [kind |-> "ExpectedI64"]
OutOfRange == [kind |-> "OutOfRange"]
ExpectedMap == [kind |-> "ExpectedMap"]
FailedToGetPropertyNames == [kind |-> "FailedToGetPropertyNames"]
UnsupportedValueType == [kind |-> "UnsupportedValueType"]
InvalidField(name) == [kind |-> "InvalidField", field |-> name]
FieldNotFound(name) == [kind |-> "FieldNotFound", field |-> name]

\* Option::ok_or
ok_or(o, e) == IF o.some THEN Ok(o.v) ELSE Err(e)

---------------------------------------------------------------------------
(* Integers beyond 32 bits (u32, i64, u64, the engine's big integers): a   *)
(* sign and a magnitude, the magnitude in limbs of 16 bits, least          *)
(* significant first, without a leading zero limb.                         *)

Limb == 2 ^ 16

\* the element of a one-element set: the operand is computed once, and what
\* is bound to it is a value
The(S) == CHOOSE r \in S : TRUE

\* a magnitude without its leading zero limbs
Trim(m) ==
    LET used == {j \in 1..Len(m) : m[j] # 0}
    IN  IF used = {} THEN <<>>
        ELSE SubSeq(m, 1, CHOOSE j \in used : \A q \in used : q <= j)

MkBig(neg, m) == The({[neg |-> neg /\ Len(t) > 0, mag |-> t] : t \in {Trim(m)}})
BigZero == MkBig(FALSE, <<>>)

LimbAt(m, j) == IF j >= 1 /\ j <= Len(m) THEN m[j] ELSE 0
Longest(a, b) == IF Len(a) >= Len(b) THEN Len(a) ELSE Len(b)

\* -1, 0 or 1 as a < b, a = b or a > b: the highest limb that differs decides
MagCmp(a, b) ==
    LET differ == {j \in 1..Longest(a, b) : LimbAt(a, j) # LimbAt(b, j)}
        top == CHOOSE j \in differ : \A q \in differ : q <= j
    IN  IF differ = {} THEN 0
        ELSE IF LimbAt(a, top) < LimbAt(b, top) THEN -1 ELSE 1

\* a + b, from limb j on with a carry
RECURSIVE MagAddFrom(_, _, _, _)
MagAddFrom(a, b, j, carry) ==
    IF j > Longest(a, b) THEN IF carry = 0 THEN <<>> ELSE <<carry>>
    ELSE The({<<t % Limb>> \o MagAddFrom(a, b, j + 1, t \div Limb) :
                 t \in {LimbAt(a, j) + LimbAt(b, j) + carry}})
MagAdd(a, b) == The({Trim(MagAddFrom(x, y, 1, 0)) : x \in {a}, y \in {b}})

\* a - b for a >= b, from limb j on with a borrow
RECURSIVE MagSubFrom(_, _, _, _)
MagSubFrom(a, b, j, borrow) ==
    IF j > Len(a) THEN <<>>
    ELSE The({<<t % Limb>> \o MagSubFrom(a, b, j + 1, IF t < 0 THEN 1 ELSE 0) :
                 t \in {(LimbAt(a, j) - LimbAt(b, j)) - borrow}})
MagSub(a, b) == The({Trim(MagSubFrom(x, y, 1, 0)) : x \in {a}, y \in {b}})

\* m * k + c for a small k, from limb j on with a carry
RECURSIVE MagMulFrom(_, _, _, _)
MagMulFrom(m, k, j, carry) ==
    IF j > Len(m) THEN IF carry = 0 THEN <<>> ELSE <<carry>>
    ELSE The({<<t % Limb>> \o MagMulFrom(m, k, j + 1, t \div Limb) :
                 t \in {m[j] * k + carry}})
MagMul(m, k, c) == The({Trim(MagMulFrom(x, k, 1, c)) : x \in {m}})

\* the remainder of the limbs of m from limb j up, divided by a small k
RECURSIVE MagRemFrom(_, _, _)
MagRemFrom(m, k, j) ==
    IF j > Len(m) THEN 0 ELSE (MagRemFrom(m, k, j + 1) * Limb + m[j]) % k
\* m \div k and m % k for a small k
MagDiv(m, k) ==
    The({Trim([j \in 1..Len(x) |-> (MagRemFrom(x, k, j + 1) * Limb + x[j]) \div k]) :
            x \in {m}})
MagRem(m, k) == The({MagRemFrom(x, k, 1) : x \in {m}})

Pow2_31 == <<0, 32768>>
Pow2_32 == <<0, 0, 1>>
Pow2_53 == <<0, 0, 0, 32>>
Pow2_63 == <<0, 0, 0, 32768>>
Pow2_64 == <<0, 0, 0, 0, 1>>

\* m modulo p, for p a power of the limb: the limbs of m below that of p
MagMod(m, p) ==
    The({Trim(SubSeq(x, 1, IF Len(x) < Len(p) THEN Len(x) ELSE Len(p) - 1)) : x \in {m}})

\* the number of bits of a magnitude
BitLength(m) ==
    IF Len(m) = 0 THEN 0
    ELSE 16 * (Len(m) - 1)
            + (CHOOSE w \in 1..16 : 2 ^ (w - 1) <= m[Len(m)] /\ m[Len(m)] < 2 ^ w)

\* m \div 2^w and m * 2^w
Shr(m, w) ==
    LET s == w \div 16
        r == w % 16
    IN  The({Trim([j \in 1..(IF Len(x) > s THEN Len(x) - s ELSE 0) |->
                      (LimbAt(x, j + s) \div (2 ^ r))
                        + (LimbAt(x, j + s + 1) % (2 ^ r)) * (2 ^ (16 - r))]) : x \in {m}})
Shl(m, w) ==
    LET s == w \div 16
        r == w % 16
    IN  The({Trim([j \in 1..(Len(x) + s + 1) |->
                      (LimbAt(x, j - s) % (2 ^ (16 - r))) * (2 ^ r)
                        + (LimbAt(x, (j - s) - 1) \div (2 ^ (16 - r)))]) : x \in {m}})

\* the magnitude of the double nearest to an integer magnitude (ties to the
\* even mantissa): exact up to 53 bits, else the low bits beyond a 53-bit
\* mantissa are rounded off
RoundAt(w, q, rest, half) ==
    LET up == \/ MagCmp(rest, half) > 0
              \/ MagCmp(rest, half) = 0 /\ LimbAt(q, 1) % 2 = 1
    IN  Shl(IF up THEN MagAdd(q, <<1>>) ELSE q, w)
RoundToDouble(m) ==
    The({The({IF w <= 0 THEN x
              ELSE The({The({RoundAt(w, q, rest, Shl(<<1>>, w - 1)) :
                                rest \in {MagSub(x, Shl(q, w))}}) : q \in {Shr(x, w)}}) :
                 w \in {BitLength(x) - 53}}) : x \in {m}})

\* the two's complement truncation of an integer to the width w of which p
\* is 2^w and h is 2^(w-1), as a signed integer
Truncate(b, p, h) ==
    The({The({IF MagCmp(u, h) < 0 THEN MkBig(FALSE, u) ELSE MkBig(TRUE, MagSub(p, u)) :
                 u \in {IF b.neg /\ Len(r) > 0 THEN MagSub(p, r) ELSE r}}) :
            r \in {MagMod(b.mag, p)}})

\* a 32-bit integer of the checker as a wide integer, and back
BigOfInt(n) ==
    IF n >= 0 THEN MkBig(FALSE, <<n % Limb, n \div Limb>>)
    ELSE MkBig(TRUE, MagAdd(<<(-(n + 1)) % Limb, (-(n + 1)) \div Limb>>, <<1>>))
FitsInt32(b) ==
    IF b.neg THEN MagCmp(b.mag, Pow2_31) <= 0 ELSE MagCmp(b.mag, Pow2_31) < 0
IntOfBig(b) ==
    IF b.neg THEN ((0 - LimbAt(b.mag, 2) * (Limb \div 2)) * 2) - LimbAt(b.mag, 1)
    ELSE LimbAt(b.mag, 2) * Limb + LimbAt(b.mag, 1)

\* a < b on wide integers
BigLess(a, b) ==
    IF a.neg # b.neg THEN a.neg
    ELSE IF a.neg THEN MagCmp(a.mag, b.mag) > 0
    ELSE MagCmp(a.mag, b.mag) < 0

\* the bounds of the native integer types
u32_MAX == MkBig(FALSE, MagSub(Pow2_32, <<1>>))
i64_MAX == MkBig(FALSE, MagSub(Pow2_63, <<1>>))
i64_MIN == MkBig(TRUE, Pow2_63)
u64_MAX == MkBig(FALSE, MagSub(Pow2_64, <<1>>))

---------------------------------------------------------------------------
(* Doubles.  A finite double is i + f/100: i is its integer part           *)
(* (truncated toward zero) and f its fraction in hundredths, of the same   *)
(* sign.  Fractions finer than a hundredth are cut.                        *)

NaN == [k |-> "nan", i |-> 0, f |-> 0]
Fin(i, f) == [k |-> "fin", i |-> i, f |-> f]
\* an integral double beyond the 32-bit range: big is a wide integer
Wide(b) == [k |-> "wide", big |-> b]

\* the double that holds an integer exactly, and the integer part of a
\* double that is not NaN
DoubleOfBig(b) == IF FitsInt32(b) THEN Fin(IntOfBig(b), 0) ELSE Wide(b)
BigOfDouble(d) == IF d.k = "wide" THEN d.big ELSE BigOfInt(d.i)

---------------------------------------------------------------------------
(* The engine's dynamic values.                                            *)

Null == [tag |-> "null"]
Undefined == [tag |-> "undefined"]
Boolean(b) == [tag |-> "boolean", b |-> b]
Number(d) == [tag |-> "number", num |-> d]
String(s) == [tag |-> "string", s |-> s]
Symbol == [tag |-> "symbol"]
\* a function without enumerable properties
Function == [tag |-> "function"]
\* an array: its slots, in index order
Array(elems) == [tag |-> "array", elems |-> elems]
\* a plain object: own properties in insertion order, and the properties
\* it inherits from its prototype chain; an entry is [key, val]
Object(props, proto) == [tag |-> "object", props |-> props, proto |-> proto]
\* a big integer of the engine
BigInt(b) == [tag |-> "bigint", big |-> b]
\* an associative map (v8::Map): its pairs in insertion order; an entry is
\* [key, val], the key any dynamic value
Map(entries) == [tag |-> "map", entries |-> entries]

\* what a slot of an array or the value of a property can be besides a value:
\* a hole (never written), or an accessor whose getter throws
Hole == [tag |-> "hole"]
Thrower == [tag |-> "thrower"]

\* v8::Integer::new
Integer_new(n) == Number(Fin(n, 0))
\* v8::Integer::new_from_unsigned and v8::BigInt::new_from_i64
Integer_new_from_unsigned(n) == Number(DoubleOfBig(n))
BigInt_new_from_i64(n) == BigInt(n)
\* the engine's maximum string length (v8::String::kMaxLength), scaled down
\* to a length every text but the over-long one of the model stays within
kMaxLength == 24
\* v8::String::new: nothing beyond the engine's maximum string length
String_new(s) == IF Len(s) > kMaxLength THEN None ELSE Some(String(s))
\* v8::String::empty
String_empty == String("")
\* v8::Object::new
Object_new == Object(<<>>, <<>>)
\* v8::Array::new(length): length holes
Array_new(l) == Array([j \in 1..l |-> Hole])

is_null_or_undefined(v) == v.tag \in {"null", "undefined"}
is_array(v) == v.tag = "array"
is_map(v) == v.tag = "map"
is_string(v) == v.tag = "string"
is_boolean(v) == v.tag = "boolean"
is_null(v) == v.tag = "null"
is_number(v) == v.tag = "number"
is_big_int(v) == v.tag = "bigint"
\* a number that is an integer within the signed 32-bit range (integral
\* doubles within that range are always Fin)
is_int32(v) == v.tag = "number" /\ v.num.k = "fin" /\ v.num.f = 0
\* a number that is an integer within 0..2^32-1
is_uint32(v) ==
    /\ v.tag = "number"
    /\ \/ v.num.k = "fin" /\ v.num.f = 0 /\ v.num.i >= 0
       \/ v.num.k = "wide" /\ ~v.num.big.neg /\ MagCmp(v.num.big.mag, Pow2_32) < 0
\* arrays, maps and functions are objects of the engine too
is_object(v) == v.tag \in {"object", "array", "map", "function"}

HasKey(entries, key) == \E j \in 1..Len(entries) : entries[j].key = key
Entry(entries, key) == entries[CHOOSE j \in 1..Len(entries) : entries[j].key = key]

\* what reading a slot gives: nothing when the getter throws
ReadSlot(s) ==
    IF s = Thrower THEN None
    ELSE IF s = Hole THEN Some(Undefined)
    ELSE Some(s)

\* v8::Object::get with a string key: the own property, else the inherited
\* one, else undefined; nothing only when the lookup throws
get(o, key) ==
    IF o.tag # "object" THEN Some(Undefined)
    ELSE IF HasKey(o.props, key) THEN ReadSlot(Entry(o.props, key).val)
    ELSE IF HasKey(o.proto, key) THEN ReadSlot(Entry(o.proto, key).val)
    ELSE Some(Undefined)

\* v8::Object::set with a string key on a plain object
set(o, key, val) ==
    IF HasKey(o.props, key)
    THEN [o EXCEPT !.props =
            [j \in 1..Len(o.props) |->
                IF o.props[j].key = key THEN [key |-> key, val |-> val] ELSE o.props[j]]]
    ELSE [o EXCEPT !.props = Append(o.props, [key |-> key, val |-> val])]

\* v8::Array::length, get_index, set_index (indices from 0)
length(a) == Len(a.elems)
get_index(a, i) == IF i < Len(a.elems) THEN ReadSlot(a.elems[i + 1]) ELSE Some(Undefined)
set_index(a, i, val) ==
    Array([j \in 1..(IF i < Len(a.elems) THEN Len(a.elems) ELSE i + 1) |->
              IF j = i + 1 THEN val
              ELSE IF j <= Len(a.elems) THEN a.elems[j] ELSE Hole])

\* the names of the own properties of a plain object
OwnKeys(o) == {o.props[j].key : j \in 1..Len(o.props)}

---------------------------------------------------------------------------
(* The engine's coercions.                                                 *)

Abs(n) == IF n < 0 THEN -n ELSE n
DecimalDigits == "0123456789"
IsDigit(c) == \E n \in 0..9 : SubSeq(DecimalDigits, n + 1, n + 1) = c
DigitValue(c) == CHOOSE n \in 0..9 : SubSeq(DecimalDigits, n + 1, n + 1) = c

RECURSIVE AllDigits(_)
AllDigits(s) ==
    Len(s) = 0 \/ The({IsDigit(SubSeq(t, 1, 1)) /\ AllDigits(SubSeq(t, 2, Len(t))) : t \in {s}})

RECURSIVE DigitsValue(_, _)
DigitsValue(s, acc) ==
    IF Len(s) = 0 THEN acc
    ELSE The({DigitsValue(t, v) : t \in {SubSeq(s, 2, Len(s))},
                                  v \in {10 * acc + DigitValue(SubSeq(s, 1, 1))}})

\* the two leading digits of a fraction, in hundredths
Hundredths(s) ==
    IF Len(s) = 0 THEN 0
    ELSE IF Len(s) = 1 THEN 10 * DigitValue(s)
    ELSE DigitsValue(SubSeq(s, 1, 2), 0)

\* the magnitude a string of decimal digits denotes
RECURSIVE MagOfDigits(_)
MagOfDigits(s) ==
    IF Len(s) <= 4 THEN Trim(<<DigitsValue(s, 0)>>)
    ELSE The({MagMul(MagOfDigits(SubSeq(t, 1, Len(t) - 4)), 10000,
                     DigitsValue(SubSeq(t, Len(t) - 3, Len(t)), 0)) : t \in {s}})

\* an unsigned decimal literal: digits, optionally a point and digits; the
\* nearest double, the fraction of one beyond the 32-bit range cut
UnsignedToNumber(s, sign) ==
    LET dots == {j \in 1..Len(s) : SubSeq(s, j, j) = "."}
        p == IF dots = {} THEN Len(s) + 1
             ELSE CHOOSE j \in dots : \A q \in dots : j <= q
        whole == SubSeq(s, 1, p - 1)
        frac == SubSeq(s, p + 1, Len(s))
    IN  IF Len(whole) + Len(frac) > 0 /\ AllDigits(whole \o frac)
        THEN The({IF FitsInt32(b) THEN Fin(IntOfBig(b), sign * Hundredths(frac))
                  ELSE Wide(b) :
                     b \in {MkBig(sign < 0, RoundToDouble(MagOfDigits(whole)))}})
        ELSE NaN

\* the engine's StringToNumber on decimal literals: the empty text is 0,
\* anything that is not a number is NaN
StringToNumber(s) ==
    IF Len(s) = 0 THEN Fin(0, 0)
    ELSE UnsignedToNumber(IF SubSeq(s, 1, 1) \in {"-", "+"} THEN SubSeq(s, 2, Len(s)) ELSE s,
                          IF SubSeq(s, 1, 1) = "-" THEN -1 ELSE 1)

FractionDigits(f) ==
    IF f % 10 = 0 THEN ToString(f \div 10)
    ELSE IF f < 10 THEN "0" \o ToString(f)
    ELSE ToString(f)

\* four decimal digits
Pad4(n) == SubSeq("0000", 1, 4 - Len(ToString(n))) \o ToString(n)

\* the decimal digits of a magnitude, four at a time from the right
RECURSIVE MagToString(_)
MagToString(m) ==
    IF Len(m) <= 1 /\ LimbAt(m, 1) < 10000 THEN ToString(LimbAt(m, 1))
    ELSE The({MagToString(MagDiv(x, 10000)) \o Pad4(MagRem(x, 10000)) : x \in {m}})

\* the engine's BigInt::ToString
BigToString(b) == (IF b.neg THEN "-" ELSE "") \o MagToString(b.mag)

\* the engine's StringToBigInt on decimal literals: the empty text is 0,
\* a sign may lead, anything else is no big integer
StringToBigInt(s) ==
    IF Len(s) = 0 THEN Some(BigZero)
    ELSE LET signed == SubSeq(s, 1, 1) \in {"-", "+"}
             digits == IF signed THEN SubSeq(s, 2, Len(s)) ELSE s
         IN  IF Len(digits) > 0 /\ AllDigits(digits)
             THEN Some(MkBig(SubSeq(s, 1, 1) = "-", MagOfDigits(digits)))
             ELSE None

\* m * 10^z and m \div 10^z
RECURSIVE Times10(_, _)
Times10(m, z) == IF z = 0 THEN m ELSE Times10(MagMul(m, 10, 0), z - 1)
RECURSIVE Div10(_, _)
Div10(m, z) == IF z = 0 THEN m ELSE Div10(MagDiv(m, 10), z - 1)

\* the distance of two magnitudes
MagDistance(a, b) == IF MagCmp(a, b) >= 0 THEN MagSub(a, b) ELSE MagSub(b, a)

\* the multiple of 10^z nearest to m among those that read back as the
\* double m, if there is one
NearestRounding(m, z) ==
    The({ The({ IF ok = {} THEN None
                ELSE Some(CHOOSE c \in ok :
                            \A o \in ok :
                                MagCmp(MagDistance(c, m), MagDistance(o, m)) <= 0)
                : ok \in {{c \in {Times10(q, z), Times10(MagAdd(q, <<1>>), z)} :
                              RoundToDouble(c) = m}} })
          : q \in {Div10(m, z)} })

\* the decimal with the fewest significant digits that reads back as the
\* double m, from z trailing zeros on
RECURSIVE ShortestDecimal(_, _, _)
ShortestDecimal(m, z, found) ==
    The({ IF c.some THEN ShortestDecimal(m, z + 1, c.v) ELSE found
          : c \in {NearestRounding(m, z + 1)} })

\* the digits s of an integer as the engine prints them: in full below
\* 10^21, with an exponent from there on
ExponentForm(s) ==
    IF Len(s) <= 21 THEN s
    ELSE LET last == CHOOSE j \in 1..Len(s) :
                        /\ SubSeq(s, j, j) # "0"
                        /\ \A q \in (j + 1)..Len(s) : SubSeq(s, q, q) = "0"
         IN  SubSeq(s, 1, 1) \o (IF last > 1 THEN "." \o SubSeq(s, 2, last) ELSE "")
                \o "e+" \o ToString(Len(s) - 1)

\* the engine's NumberToString: of an integral double beyond the 32-bit
\* range the shortest decimal that reads back as the same double
NumberToString(d) ==
    IF d.k = "nan" THEN "NaN"
    ELSE IF d.k = "wide"
    THEN (IF d.big.neg THEN "-" ELSE "")
            \o ExponentForm(MagToString(ShortestDecimal(d.big.mag, 0, d.big.mag)))
    ELSE IF d.f = 0 THEN ToString(d.i)
    ELSE (IF d.i < 0 \/ d.f < 0 THEN "-" ELSE "")
            \o ToString(Abs(d.i)) \o "." \o FractionDigits(Abs(d.f))

\* v8::Value::to_string: nothing when the coercion throws (a symbol)
RECURSIVE to_string(_), Join(_, _)
to_string(v) ==
    CASE v.tag = "null" -> Some("null")
      [] v.tag = "undefined" -> Some("undefined")
      [] v.tag = "boolean" -> Some(IF v.b THEN "true" ELSE "false")
      [] v.tag = "number" -> Some(NumberToString(v.num))
      [] v.tag = "string" -> Some(v.s)
      [] v.tag = "symbol" -> None
      [] v.tag = "bigint" -> Some(BigToString(v.big))
      [] v.tag = "array" -> Join(v.elems, 1)
      [] v.tag = "object" -> Some("[object Object]")
      [] v.tag = "map" -> Some("[object Map]")
      [] v.tag = "function" -> Some("function () {}")

\* Array.prototype.join from slot j on: null, undefined and holes give ""
Join(elems, j) ==
    IF j > Len(elems) THEN Some("")
    ELSE LET e == elems[j]
             head == IF e = Thrower THEN None
                     ELSE IF e = Hole \/ is_null_or_undefined(e) THEN Some("")
                     ELSE to_string(e)
             rest == Join(elems, j + 1)
         IN  IF ~head.some \/ ~rest.some THEN None
             ELSE Some(head.v \o (IF j < Len(elems) THEN "," ELSE "") \o rest.v)

\* v8::Value::to_rust_string_lossy: the empty text when to_string gives nothing
to_rust_string_lossy(v) ==
    LET s == to_string(v) IN IF s.some THEN s.v ELSE ""

\* v8::Value::boolean_value: the engine's truthiness
boolean_value(v) ==
    CASE v.tag \in {"null", "undefined"} -> FALSE
      [] v.tag = "boolean" -> v.b
      [] v.tag = "number" ->
            v.num.k # "nan" /\ ~(v.num.k = "fin" /\ v.num.i = 0 /\ v.num.f = 0)
      [] v.tag = "bigint" -> Len(v.big.mag) > 0
      [] v.tag = "string" -> Len(v.s) > 0
      [] OTHER -> TRUE

\* v8::Value::number_value: the engine's ToNumber; nothing when it throws
number_value(v) ==
    CASE v.tag = "undefined" -> Some(NaN)
      [] v.tag = "null" -> Some(Fin(0, 0))
      [] v.tag = "boolean" -> Some(Fin(IF v.b THEN 1 ELSE 0, 0))
      [] v.tag = "number" -> Some(v.num)
      [] v.tag \in {"symbol", "bigint"} -> None
      [] OTHER -> The({IF s.some THEN Some(StringToNumber(s.v)) ELSE None :
                          s \in {to_string(v)}})

\* the engine's ToInt32: NaN is 0, the fraction is cut, an integer beyond
\* the 32-bit range wraps
ToInt32(d) ==
    IF d.k = "nan" THEN 0
    ELSE IF d.k = "wide" THEN IntOfBig(Truncate(d.big, Pow2_32, Pow2_31))
    ELSE d.i

\* the engine's ToUint32: as ToInt32, into 0..2^32-1
ToUint32(d) ==
    IF d.k = "nan" THEN BigZero
    ELSE The({The({MkBig(FALSE, IF b.neg /\ Len(r) > 0 THEN MagSub(Pow2_32, r) ELSE r) :
                      r \in {MagMod(b.mag, Pow2_32)}}) : b \in {BigOfDouble(d)}})

\* v8::Value::uint32_value
uint32_value(v) ==
    LET n == number_value(v) IN IF n.some THEN Some(ToUint32(n.v)) ELSE None

\* v8::Value::to_big_int: the engine's ToBigInt; nothing when it throws (a
\* number, null, undefined, a symbol, text that is no integer literal)
to_big_int(v) ==
    CASE v.tag = "bigint" -> Some(v.big)
      [] v.tag = "boolean" -> Some(BigOfInt(IF v.b THEN 1 ELSE 0))
      [] v.tag \in {"number", "null", "undefined", "symbol"} -> None
      [] OTHER -> The({IF s.some THEN StringToBigInt(s.v) ELSE None :
                          s \in {to_string(v)}})

\* v8::BigInt::i64_value().0: the low 64 bits, as a signed integer
i64_value(b) == Truncate(b, Pow2_64, Pow2_63)

\* v8::Value::int32_value
int32_value(v) ==
    LET n == number_value(v) IN IF n.some THEN Some(ToInt32(n.v)) ELSE None

---------------------------------------------------------------------------
(* The engine's property names and maps.                                   *)

\* an own property is enumerable unless its entry says otherwise
Enumerable(e) == IF "enumerable" \in DOMAIN e THEN e.enumerable ELSE TRUE

\* a property name that is an array index in canonical form
IsArrayIndex(s) ==
    /\ Len(s) > 0
    /\ Len(s) <= 9
    /\ AllDigits(s)
    /\ (Len(s) = 1 \/ SubSeq(s, 1, 1) # "0")

RECURSIVE Ascending(_)
Ascending(S) ==
    IF S = {} THEN <<>>
    ELSE LET m == CHOOSE x \in S : \A y \in S : x <= y
         IN  <<m>> \o Ascending(S \ {m})

\* the enumerable entries among entries, from entry j on: the index names
\* (as numbers) or the other names (as strings, in insertion order)
RECURSIVE NamedKeys(_, _)
NamedKeys(entries, j) ==
    IF j > Len(entries) THEN <<>>
    ELSE (IF Enumerable(entries[j]) /\ ~IsArrayIndex(entries[j].key)
          THEN <<String(entries[j].key)>> ELSE <<>>) \o NamedKeys(entries, j + 1)

IndexKeys(entries) ==
    LET S == {DigitsValue(entries[j].key, 0) :
                 j \in {q \in 1..Len(entries) :
                            Enumerable(entries[q]) /\ IsArrayIndex(entries[q].key)}}
        sorted == Ascending(S)
    IN  [j \in 1..Len(sorted) |-> Integer_new(sorted[j])]

\* the entries of the prototype chain that the own properties do not shadow
Inherited(o) == SelectSeq(o.proto, LAMBDA e : ~HasKey(o.props, e.key))

\* mutant of get_own_property_names: the names of the prototype chain are
\* collected too
get_own_property_names_with_prototypes(o) ==
    IF o.tag = "object"
    THEN Some(Array(IndexKeys(o.props \o Inherited(o))
                        \o NamedKeys(o.props \o Inherited(o), 1)))
    ELSE Some(Array(<<>>))

\* v8::Object::get_own_property_names with the default arguments: the own
\* enumerable names that are not symbols, index names first, ascending and
\* kept as numbers, the other names in insertion order; an array's names
\* are the indices of the slots that are not holes
get_own_property_names(o) ==
    IF o.tag = "object"
    THEN Some(Array(IndexKeys(o.props) \o NamedKeys(o.props, 1)))
    ELSE IF o.tag = "array"
    THEN LET sorted == Ascending({j - 1 : j \in {q \in 1..Len(o.elems) : o.elems[q] # Hole}})
         IN  Some(Array([j \in 1..Len(sorted) |-> Integer_new(sorted[j])]))
    ELSE Some(Array(<<>>))

\* v8::Object::get_property_names with the default arguments: as above,
\* and the enumerable names of the prototype chain
get_property_names(o) ==
    IF o.tag = "object"
    THEN Some(Array(IndexKeys(o.props \o Inherited(o))
                        \o NamedKeys(o.props \o Inherited(o), 1)))
    ELSE get_own_property_names(o)

\* the property key a dynamic value stands for
ToPropertyKey(key) == to_rust_string_lossy(key)

\* v8::Object::get with a dynamic value as the key
get_value(o, key) ==
    IF o.tag = "array"
    THEN IF key.tag = "number" /\ key.num.k = "fin" /\ key.num.f = 0 /\ key.num.i >= 0
         THEN get_index(o, key.num.i)
         ELSE Some(Undefined)
    ELSE get(o, ToPropertyKey(key))

\* v8::Object::set with a dynamic value as the key, on a plain object
set_value(o, key, val) == set(o, ToPropertyKey(key), val)

\* v8::Map::new and v8::Map::set: a key the map holds keeps its place
Map_new == Map(<<>>)
Map_set(m, key, val) ==
    IF \E j \in 1..Len(m.entries) : m.entries[j].key = key
    THEN Map([j \in 1..Len(m.entries) |->
                 IF m.entries[j].key = key THEN [key |-> key, val |-> val]
                 ELSE m.entries[j]])
    ELSE Map(Append(m.entries, [key |-> key, val |-> val]))

\* mutant: value, key, value, key, ...
as_array_values_first(m) ==
    Array([j \in 1..(2 * Len(m.entries)) |->
              IF j % 2 = 1 THEN m.entries[(j + 1) \div 2].val
              ELSE m.entries[j \div 2].key])

\* v8::Map::as_array: key, value, key, value, ... in insertion order
as_array(m) ==
    Array([j \in 1..(2 * Len(m.entries)) |->
              IF j % 2 = 1 THEN m.entries[(j + 1) \div 2].key
              ELSE m.entries[j \div 2].val])

---------------------------------------------------------------------------
(* Native types.  A type is a descriptor; a record type lists its fields   *)
(* in declaration order.                                                   *)

T_bool == [k |-> "bool"]
T_String == [k |-> "String"]
T_i32 == [k |-> "i32"]
T_f64 == [k |-> "f64"]
T_u32 == [k |-> "u32"]
T_i64 == [k |-> "i64"]
T_f32 == [k |-> "f32"]
T_i8 == [k |-> "i8"]
T_Option(t) == [k |-> "Option", of |-> t]
T_Vec(t) == [k |-> "Vec", of |-> t]
\* HashMap<K, T>
T_HashMap(key, t) == [k |-> "HashMap", key |-> key, of |-> t]
T_Struct(name, fields) == [k |-> "Struct", name |-> name, fields |-> fields]
Field(name, t) == [name |-> name, ty |-> t]

---------------------------------------------------------------------------
(* Decoding: helpers.rs and from.rs.  get_field_as, get_optional_field_as  *)
(* and Option's decoder return [r, calls]: the Result, and the dynamic     *)
(* values they invoked the decoder on.  parse_fn is given as the type T    *)
(* whose decoder it is.                                                    *)

try_as_bool(input) == Ok(boolean_value(input))
try_as_string(input) == Ok(to_rust_string_lossy(input))
\* mutant: a strict decoder that accepts only numbers
try_as_i32_strict(input) ==
    IF input.tag = "number" THEN ok_or(int32_value(input), ExpectedI32)
    ELSE Err(ExpectedI32)
\* mutant: a coercion that throws counts as 0
try_as_i32_or_zero(input) ==
    The({ Ok(IF i.some THEN i.v ELSE 0) : i \in {int32_value(input)} })
try_as_i32(input) == ok_or(int32_value(input), ExpectedI32)
try_as_f64(input) == ok_or(number_value(input), ExpectedF64)

\* u32::try_from(i64).map_err(|_| OutOfRange); a u32 is a wide integer
u32_try_from(n) ==
    IF ~n.neg /\ MagCmp(n.mag, Pow2_32) < 0 THEN Ok(n) ELSE Err(OutOfRange)

\* mutant: the big integer is checked against the range before it is cut to
\* 64 bits
try_as_u32_checked(input) ==
    IF is_uint32(input) THEN ok_or(uint32_value(input), ExpectedU32)
    ELSE IF is_null_or_undefined(input) THEN Ok(BigZero)
    ELSE The({ IF ~b.some THEN Err(ExpectedU32) ELSE u32_try_from(b.v)
               : b \in {to_big_int(input)} })

\* mutant: every value goes through the engine's coercion to a 32-bit
\* unsigned integer
try_as_u32_via_number(input) == ok_or(uint32_value(input), ExpectedU32)

try_as_u32(input) ==
    IF is_uint32(input) THEN ok_or(uint32_value(input), ExpectedU32)
    ELSE IF is_null_or_undefined(input) THEN Ok(BigZero)
    ELSE The({ IF ~b.some THEN Err(ExpectedU32) ELSE u32_try_from(i64_value(b.v))
               : b \in {to_big_int(input)} })

\* mutant: the lossless flag of i64_value is honoured
try_as_i64_lossless(input) ==
    The({ IF ~i.some THEN Err(ExpectedI64)
          ELSE IF BigLess(i.v, i64_MIN) \/ BigLess(i64_MAX, i.v) THEN Err(OutOfRange)
          ELSE Ok(i.v)
          : i \in {to_big_int(input)} })

\* an i64 is a wide integer
try_as_i64(input) ==
    The({ IF ~i.some THEN Err(ExpectedI64) ELSE Ok(i64_value(i.v))
          : i \in {to_big_int(input)} })

\* a double that a single-precision float holds exactly: a fraction in
\* quarters and an integer part within 2^24
IsSingle(d) ==
    \/ d.k = "nan"
    \/ d.k = "fin" /\ d.f % 25 = 0 /\ d.i >= -16777216 /\ d.i <= 16777216

\* `i as f32`: a double a single holds exactly is kept, any other is rounded
\* to the single nearest to it
f64_as_f32(d) == IF IsSingle(d) THEN d ELSE [k |-> "single", nearest |-> d]

try_as_f32(input) ==
    The({ IF ~i.ok THEN i ELSE Ok(f64_as_f32(i.val)) : i \in {try_as_f64(input)} })

\* the bounds of i8
i8_MAX == 127
i8_MIN == (-i8_MAX) - 1

\* i8::try_from(i32).map_err(|_| OutOfRange)
i8_try_from(i) == IF i >= i8_MIN /\ i <= i8_MAX THEN Ok(i) ELSE Err(OutOfRange)

\* mutant: the 32-bit integer is cut to its low 8 bits (`i as i8`)
try_as_i8_wrapping(input) ==
    The({ IF ~i.ok THEN i ELSE Ok((((i.val % 256) + 128) % 256) - 128)
          : i \in {try_as_i32(input)} })

try_as_i8(input) ==
    The({ IF ~i.ok THEN i ELSE i8_try_from(i.val) : i \in {try_as_i32(input)} })

RECURSIVE TryFromValue(_, _)
RECURSIVE try_as_vec(_, _)
RECURSIVE try_as_vec_loop(_, _, _, _)
RECURSIVE Option_try_from_value(_, _)
RECURSIVE get_field_as(_, _, _)
RECURSIVE get_optional_field_as(_, _, _)
RECURSIVE quote_get_field_as(_, _)
RECURSIVE Struct_try_from_value(_, _)
RECURSIVE Struct_fields_from(_, _, _, _)
RECURSIVE try_as_hashmap(_, _)
RECURSIVE try_as_hashmap_map_loop(_, _, _, _)
RECURSIVE try_as_hashmap_object_loop(_, _, _, _, _)

\* mutant: a property the object does not hold is reported as not found
get_field_as_absent_not_found(field_name, input, T) ==
    IF ~is_object(input) THEN [r |-> Err(ExpectedObject), calls |-> <<>>]
    ELSE LET js_value == get(input, field_name)
         IN  IF ~js_value.some \/ js_value.v = Undefined
             THEN [r |-> Err(FieldNotFound(field_name)), calls |-> <<>>]
             ELSE [r |-> TryFromValue(T, js_value.v), calls |-> <<js_value.v>>]

\* mutant: the shape of the input is not checked
get_field_as_no_shape_check(field_name, input, T) ==
    LET js_value == get(input, field_name)
    IN  IF ~js_value.some
        THEN [r |-> Err(FieldNotFound(field_name)), calls |-> <<>>]
        ELSE [r |-> TryFromValue(T, js_value.v), calls |-> <<js_value.v>>]

\* mutant: the error of the field's decoder is replaced by FieldNotFound
get_field_as_replaces_error(field_name, input, T) ==
    IF ~is_object(input) THEN [r |-> Err(ExpectedObject), calls |-> <<>>]
    ELSE LET js_key == String_new(field_name)
         IN  IF ~js_key.some THEN [r |-> Err(InvalidField(field_name)), calls |-> <<>>]
             ELSE LET js_value == get(input, js_key.v.s)
                  IN  IF ~js_value.some
                      THEN [r |-> Err(FieldNotFound(field_name)), calls |-> <<>>]
                      ELSE The({ [r |-> IF d.ok THEN d ELSE Err(FieldNotFound(field_name)),
                                  calls |-> <<js_value.v>>]
                                 : d \in {TryFromValue(T, js_value.v)} })

get_field_as(field_name, input, T) ==
    IF ~is_object(input) THEN [r |-> Err(ExpectedObject), calls |-> <<>>]
    ELSE LET js_key == String_new(field_name)
         IN  IF ~js_key.some THEN [r |-> Err(InvalidField(field_name)), calls |-> <<>>]
             ELSE LET js_value == get(input, js_key.v.s)
                  IN  IF ~js_value.some
                      THEN [r |-> Err(FieldNotFound(field_name)), calls |-> <<>>]
                      ELSE [r |-> TryFromValue(T, js_value.v), calls |-> <<js_value.v>>]

\* mutant: a lookup that returns nothing is an error, as in get_field_as
get_optional_field_as_lookup_error(field_name, input, T) ==
    IF ~is_object(input) THEN [r |-> Err(ExpectedObject), calls |-> <<>>]
    ELSE LET js_value == get(input, field_name)
         IN  IF ~js_value.some
             THEN [r |-> Err(FieldNotFound(field_name)), calls |-> <<>>]
             ELSE IF is_null_or_undefined(js_value.v)
             THEN [r |-> Ok(None), calls |-> <<>>]
             ELSE The({ [r |-> IF inner_value.ok THEN Ok(Some(inner_value.val))
                               ELSE inner_value,
                         calls |-> <<js_value.v>>]
                        : inner_value \in {TryFromValue(T, js_value.v)} })

get_optional_field_as(field_name, input, T) ==
    IF ~is_object(input) THEN [r |-> Err(ExpectedObject), calls |-> <<>>]
    ELSE LET js_key == String_new(field_name)
         IN  IF ~js_key.some THEN [r |-> Err(InvalidField(field_name)), calls |-> <<>>]
             ELSE LET js_value == get(input, js_key.v.s)
                  IN  IF ~js_value.some THEN [r |-> Ok(None), calls |-> <<>>]
                      ELSE IF is_null_or_undefined(js_value.v)
                      THEN [r |-> Ok(None), calls |-> <<>>]
                      ELSE The({ [r |-> IF inner_value.ok
                                        THEN Ok(Some(inner_value.val))
                                        ELSE inner_value,
                                  calls |-> <<js_value.v>>]
                                 : inner_value \in {TryFromValue(T, js_value.v)} })

\* for i in i..length: an index whose lookup gives nothing is skipped
try_as_vec_loop(T, array, i, result) ==
    IF i >= length(array) THEN Ok(result)
    ELSE LET element == get_index(array, i)
         IN  IF ~element.some THEN try_as_vec_loop(T, array, i + 1, result)
             ELSE The({ IF ~e.ok THEN e
                        ELSE try_as_vec_loop(T, array, i + 1, Append(result, e.val))
                        : e \in {TryFromValue(T, element.v)} })

try_as_vec(T, input) ==
    IF ~is_array(input) THEN Err(ExpectedArray)
    ELSE try_as_vec_loop(T, input, 0, <<>>)

\* mutant: only null, not undefined, is taken for None
Option_try_from_value_null_only(T, input) ==
    IF input = Null THEN [r |-> Ok(None), calls |-> <<>>]
    ELSE The({ [r |-> IF value.ok THEN Ok(Some(value.val)) ELSE value,
                calls |-> <<input>>]
               : value \in {TryFromValue(T, input)} })

\* impl TryFromValue for Option<T>
Option_try_from_value(T, input) ==
    IF is_null_or_undefined(input) THEN [r |-> Ok(None), calls |-> <<>>]
    ELSE The({ [r |-> IF value.ok THEN Ok(Some(value.val)) ELSE value,
                calls |-> <<input>>]
               : value \in {TryFromValue(T, input)} })

\* HashMap::insert: a native mapping is a function from its keys
insert(result, key, value) ==
    [x \in (DOMAIN result) \cup {key} |-> IF x = key THEN value ELSE result[x]]

\* for i in (i..js_array.length()).step_by(2): the key at i, the value at i + 1
try_as_hashmap_map_loop(T, js_array, i, result) ==
    IF i >= length(js_array) THEN Ok(result)
    ELSE LET key == get_index(js_array, i)
             value == get_index(js_array, i + 1)
         IN  IF ~key.some \/ ~value.some
             THEN try_as_hashmap_map_loop(T, js_array, i + 2, result)
             ELSE The({ IF ~v.ok THEN v
                        ELSE try_as_hashmap_map_loop(T, js_array, i + 2,
                                 insert(result, to_rust_string_lossy(key.v), v.val))
                        : v \in {TryFromValue(T, value.v)} })

\* for i in i..keys.length(): the value of each own property name
try_as_hashmap_object_loop(T, js_object, keys, i, result) ==
    IF i >= length(keys) THEN Ok(result)
    ELSE LET key == get_index(keys, i)
         IN  IF ~key.some THEN Err(FailedToGetPropertyNames)
             ELSE The({ IF ~value.some THEN Err(FailedToGetPropertyNames)
                        ELSE The({ IF ~v.ok THEN v
                                   ELSE try_as_hashmap_object_loop(
                                            T, js_object, keys, i + 1,
                                            insert(result, to_rust_string_lossy(key.v),
                                                   v.val))
                                   : v \in {TryFromValue(T, value.v)} })
                        : value \in {get_value(js_object, key.v)} })

\* mutant: the keys of a map are taken at the odd indices of as_array
try_as_hashmap_values_as_keys(T, input) ==
    IF ~(is_map(input) \/ is_object(input)) THEN Err(ExpectedMap)
    ELSE IF is_map(input) THEN try_as_hashmap_map_loop(T, as_array(input), 1, <<>>)
    ELSE The({ IF ~keys.some THEN Err(FailedToGetPropertyNames)
               ELSE try_as_hashmap_object_loop(T, input, keys.v, 0, <<>>)
               : keys \in {get_own_property_names(input)} })

try_as_hashmap(T, input) ==
    IF ~(is_map(input) \/ is_object(input)) THEN Err(ExpectedMap)
    ELSE IF is_map(input) THEN try_as_hashmap_map_loop(T, as_array(input), 0, <<>>)
    ELSE The({ IF ~keys.some THEN Err(FailedToGetPropertyNames)
               ELSE try_as_hashmap_object_loop(T, input, keys.v, 0, <<>>)
               : keys \in {get_own_property_names(input)} })

\* the field access the derive macro generates for one field: the optional
\* accessor with the inner type's decoder for an Option field, the plain
\* accessor with the field type's decoder otherwise; `?` is applied to it
quote_get_field_as(f, input) ==
    IF f.ty.k = "Option" THEN get_optional_field_as(f.name, input, f.ty.of)
    ELSE get_field_as(f.name, input, f.ty)

\* the generated Ok(Self { f1: access?, f2: access?, ... }) from field i on
Struct_fields_from(fields, input, i, fields_built) ==
    IF i > Len(fields) THEN Ok(fields_built)
    ELSE The({ IF ~a.r.ok THEN a.r
               ELSE Struct_fields_from(fields, input, i + 1,
                                       fields_built @@ (fields[i].name :> a.r.val))
               : a \in {quote_get_field_as(fields[i], input)} })

\* the generated impl TryFromValue for a record
Struct_try_from_value(T, input) == Struct_fields_from(T.fields, input, 1, <<>>)

\* T::try_from_value: the decoder of type T
TryFromValue(T, input) ==
    CASE T.k = "bool" -> try_as_bool(input)
      [] T.k = "String" -> try_as_string(input)
      [] T.k = "i32" -> try_as_i32(input)
      [] T.k = "f64" -> try_as_f64(input)
      [] T.k = "u32" -> try_as_u32(input)
      [] T.k = "i64" -> try_as_i64(input)
      [] T.k = "f32" -> try_as_f32(input)
      [] T.k = "i8" -> try_as_i8(input)
      [] T.k = "Option" -> Option_try_from_value(T.of, input).r
      [] T.k = "Vec" -> try_as_vec(T.of, input)
      [] T.k = "HashMap" -> try_as_hashmap(T.of, input)
      [] T.k = "Struct" -> Struct_try_from_value(T, input)

---------------------------------------------------------------------------
(* Encoding: into.rs and the generated impl IntoValue of a record.         *)

RECURSIVE IntoValue(_, _)
RECURSIVE Vec_into_value_loop(_, _, _, _)
RECURSIVE Struct_into_value_loop(_, _, _, _)

bool_into_value(x) == Boolean(x)
i32_into_value(x) == Integer_new(x)
\* mutant: the double is encoded as a 32-bit integer
f64_into_value_as_integer(x) == Integer_new(ToInt32(x))
f64_into_value(x) == Number(x)
\* mutant: the u32 is encoded as a signed 32-bit integer (`self as i32`)
u32_into_value_signed(x) == Integer_new(IntOfBig(Truncate(x, Pow2_32, Pow2_31)))
u32_into_value(x) == Integer_new_from_unsigned(x)
i64_into_value(x) == BigInt_new_from_i64(x)
\* f64::from(f32): every single is a double
f64_from(x) == x
f32_into_value(x) == f64_into_value(f64_from(x))
\* v8::String::new(scope, &self).unwrap_or(v8::String::empty(scope))
String_into_value(x) ==
    LET s == String_new(x) IN IF s.some THEN s.v ELSE String_empty

Option_into_value(T, x) == IF x.some THEN IntoValue(T, x.v) ELSE Null

\* for (i, value) in self.into_iter().enumerate(), from element i (0-based) on
Vec_into_value_loop(T, xs, i, array) ==
    IF i >= Len(xs) THEN array
    ELSE Vec_into_value_loop(T, xs, i + 1, set_index(array, i, IntoValue(T, xs[i + 1])))

\* mutant: the elements are written one index too far
RECURSIVE Vec_into_value_shifted_loop(_, _, _, _)
Vec_into_value_shifted_loop(T, xs, i, array) ==
    IF i >= Len(xs) THEN array
    ELSE Vec_into_value_shifted_loop(T, xs, i + 1,
                                     set_index(array, i + 1, IntoValue(T, xs[i + 1])))
Vec_into_value_shifted(T, xs) == Vec_into_value_shifted_loop(T, xs, 0, Array_new(Len(xs)))

Vec_into_value(T, xs) == Vec_into_value_loop(T, xs, 0, Array_new(Len(xs)))

\* mutant: a field that holds None is not written
write_field_unless_none(f, self, obj) ==
    IF f.ty.k = "Option" /\ ~self[f.name].some THEN obj
    ELSE set(obj, f.name, IntoValue(f.ty, self[f.name]))

\* one generated field write: js_key, js_val, object.set(scope, js_key, js_val)
write_field(f, self, obj) == set(obj, f.name, IntoValue(f.ty, self[f.name]))

Struct_into_value_loop(fields, self, i, obj) ==
    IF i > Len(fields) THEN obj
    ELSE Struct_into_value_loop(fields, self, i + 1, write_field(fields[i], self, obj))

\* the generated impl IntoValue for a record
Struct_into_value(T, self) == Struct_into_value_loop(T.fields, self, 1, Object_new)

\* for (key, value) in self, in the order the HashMap iterates: from pair i on
RECURSIVE HashMap_into_value_loop(_, _, _, _, _, _)
HashMap_into_value_loop(K, T, self, order, i, js_map) ==
    IF i > Len(order) THEN js_map
    ELSE HashMap_into_value_loop(K, T, self, order, i + 1,
             Map_set(js_map, IntoValue(K, order[i]), IntoValue(T, self[order[i]])))

\* impl IntoValue for HashMap<K, T, S>: a map of the engine
HashMap_into_value(K, T, self, order) ==
    HashMap_into_value_loop(K, T, self, order, 1, Map_new)

RECURSIVE HashMap_into_object_loop(_, _, _, _, _, _)
HashMap_into_object_loop(K, T, self, order, i, obj) ==
    IF i > Len(order) THEN obj
    ELSE HashMap_into_object_loop(K, T, self, order, i + 1,
             set_value(obj, IntoValue(K, order[i]), IntoValue(T, self[order[i]])))

\* impl IntoObject for HashMap<K, T, S>: a plain object
HashMap_into_object(K, T, self, order) ==
    HashMap_into_object_loop(K, T, self, order, 1, Object_new)

\* T::into_value: the encoder of type T
IntoValue(T, x) ==
    CASE T.k = "bool" -> bool_into_value(x)
      [] T.k = "String" -> String_into_value(x)
      [] T.k = "i32" -> i32_into_value(x)
      [] T.k = "f64" -> f64_into_value(x)
      [] T.k = "u32" -> u32_into_value(x)
      [] T.k = "i64" -> i64_into_value(x)
      [] T.k = "f32" -> f32_into_value(x)
      [] T.k = "Option" -> Option_into_value(T.of, x)
      [] T.k = "Vec" -> Vec_into_value(T.of, x)
      [] T.k = "Struct" -> Struct_into_value(T, x)

---------------------------------------------------------------------------
(* Tree values (serde_json::Value) and json.rs.                            *)

\* serde_json::Value
JNull == [j |-> "null"]
JBool(b) == [j |-> "bool", b |-> b]
JNumber(n) == [j |-> "number", n |-> n]
JString(s) == [j |-> "string", s |-> s]
JArray(elems) == [j |-> "array", elems |-> elems]
\* an object: a function from its keys to their values (serde_json::Map)
JObject(members) == [j |-> "object", members |-> members]

\* serde_json::Number: an unsigned 64-bit integer, a negative signed one, or
\* a finite double
PosInt(u) == [n |-> "pos", big |-> u]
NegInt(i) == [n |-> "neg", big |-> i]
Float(d) == [n |-> "float", d |-> d]

\* Number::as_i64: an integer within the signed 64-bit range, never a double
as_i64(n) ==
    IF n.n = "pos" THEN IF BigLess(i64_MAX, n.big) THEN None ELSE Some(n.big)
    ELSE IF n.n = "neg" THEN Some(n.big)
    ELSE None

\* mutant of as_f64: an integer has no double, so that json_to_v8 falls
\* through to i64::MAX
as_f64_of_floats_only(n) == IF n.n = "float" THEN Some(n.d) ELSE None

\* Number::as_f64: `n as f64` of an integer, the double itself; always some
as_f64(n) ==
    IF n.n = "float" THEN Some(n.d)
    ELSE Some(DoubleOfBig(MkBig(n.big.neg, RoundToDouble(n.big.mag))))

\* serde_json::Value::from of a native integer, double or boolean: a double
\* that is not finite has no number and gives Null
Number_from_i64(i) == IF i.neg THEN NegInt(i) ELSE PosInt(i)
Value_from_i32(i) == JNumber(Number_from_i64(BigOfInt(i)))
Value_from_u32(u) == JNumber(PosInt(u))
Value_from_i64(i) == JNumber(Number_from_i64(i))
Value_from_f64(d) == IF d.k = "nan" THEN JNull ELSE JNumber(Float(d))
Value_from_bool(b) == JBool(b)

\* the order serde_json::Map iterates in: by key
JsonKeyOrder == <<"1", "a", "age", "b", "name", "very_large_number">>
MapKeys(members) == SelectSeq(JsonKeyOrder, LAMBDA k : k \in DOMAIN members)
Map_with_capacity == [k \in {} |-> JNull]

RECURSIVE json_to_v8(_)
RECURSIVE json_to_v8_array_loop(_, _, _)
RECURSIVE json_to_v8_object_loop(_, _, _, _)

\* for (i, item) in arr.into_iter().enumerate(), from index i on
json_to_v8_array_loop(arr, i, js_array) ==
    IF i >= Len(arr) THEN js_array
    ELSE json_to_v8_array_loop(arr, i + 1, set_index(js_array, i, json_to_v8(arr[i + 1])))

\* for (key, val) in obj, from the i-th key on
json_to_v8_object_loop(obj, keys, i, js_object) ==
    IF i > Len(keys) THEN js_object
    ELSE json_to_v8_object_loop(obj, keys, i + 1,
            set_value(js_object, String_into_value(keys[i]), json_to_v8(obj[keys[i]])))

\* json_to_v8: a tree value as a dynamic value
json_to_v8(value) ==
    CASE value.j = "null" -> Null
      [] value.j = "bool" -> bool_into_value(value.b)
      [] value.j = "number" ->
            LET i == as_i64(value.n)
                f == as_f64(value.n)
            IN  IF i.some THEN i64_into_value(i.v)
                ELSE IF f.some THEN f64_into_value(f.v)
                ELSE i64_into_value(i64_MAX)
      [] value.j = "string" -> String_into_value(value.s)
      [] value.j = "array" ->
            json_to_v8_array_loop(value.elems, 0, Array_new(Len(value.elems)))
      [] value.j = "object" ->
            json_to_v8_object_loop(value.members, MapKeys(value.members), 1, Object_new)

RECURSIVE v8_to_json_value(_)
RECURSIVE v8_array_to_json_loop(_, _, _)
RECURSIVE v8_object_to_json_loop(_, _, _, _)

\* mutant: an element that is undefined is Null too
v8_array_to_json_loop_undefined_as_null(array, i, json_array) ==
    IF i >= length(array) THEN Ok(JArray(json_array))
    ELSE LET got == get_index(array, i)
             it == IF got.some /\ got.v # Undefined THEN v8_to_json_value(got.v)
                   ELSE Ok(JNull)
         IN  IF ~it.ok THEN it
             ELSE v8_array_to_json_loop(array, i + 1, Append(json_array, it.val))

\* for i in 0..length of v8_array_to_json, from index i on: a slot that
\* cannot be read is Null
v8_array_to_json_loop(array, i, json_array) ==
    IF i >= length(array) THEN Ok(JArray(json_array))
    ELSE LET got == get_index(array, i)
             it == IF got.some THEN v8_to_json_value(got.v) ELSE Ok(JNull)
         IN  IF ~it.ok THEN it
             ELSE v8_array_to_json_loop(array, i + 1, Append(json_array, it.val))

v8_array_to_json(value) ==
    IF ~is_array(value) THEN Err(ExpectedArray)
    ELSE v8_array_to_json_loop(value, 0, <<>>)

\* for i in 0..length of v8_object_to_json, from index i on
v8_object_to_json_loop(obj, properties, i, json_object) ==
    IF i >= length(properties) THEN Ok(JObject(json_object))
    ELSE LET key == get_index(properties, i)
             key_str == try_as_string(key.v)
             got == get_value(obj, key.v)
             value == v8_to_json_value(got.v)
         IN  IF ~key.some THEN Err(ExpectedObject)
             ELSE IF ~key_str.ok THEN key_str
             ELSE IF ~got.some THEN Err(ExpectedObject)
             ELSE IF ~value.ok THEN value
             ELSE v8_object_to_json_loop(obj, properties, i + 1,
                                         insert(json_object, key_str.val, value.val))

v8_object_to_json(value) ==
    LET properties == get_property_names(value)
    IN  IF ~is_object(value) THEN Err(ExpectedObject)
        ELSE IF ~properties.some THEN Err(FailedToGetPropertyNames)
        ELSE v8_object_to_json_loop(value, properties.v, 0, Map_with_capacity)

\* mutant: is_number is tested before is_int32 and is_uint32
v8_to_json_value_number_first(value) ==
    IF is_string(value)
    THEN LET v == try_as_string(value) IN IF ~v.ok THEN v ELSE Ok(JString(v.val))
    ELSE IF is_number(value)
    THEN LET v == try_as_f64(value) IN IF ~v.ok THEN v ELSE Ok(Value_from_f64(v.val))
    ELSE IF is_big_int(value)
    THEN LET v == try_as_i64(value) IN IF ~v.ok THEN v ELSE Ok(Value_from_i64(v.val))
    ELSE IF is_boolean(value)
    THEN LET v == try_as_bool(value) IN IF ~v.ok THEN v ELSE Ok(Value_from_bool(v.val))
    ELSE IF is_null(value) THEN Ok(JNull)
    ELSE IF is_array(value) THEN v8_array_to_json(value)
    ELSE IF is_object(value) THEN v8_object_to_json(value)
    ELSE Err(UnsupportedValueType)

\* v8_to_json_value: a dynamic value as a tree value; String::try_from_value
\* is try_as_string, i32::try_from_value is try_as_i32, and so on (from.rs)
v8_to_json_value(value) ==
    IF is_string(value)
    THEN LET v == try_as_string(value) IN IF ~v.ok THEN v ELSE Ok(JString(v.val))
    ELSE IF is_int32(value)
    THEN LET v == try_as_i32(value) IN IF ~v.ok THEN v ELSE Ok(Value_from_i32(v.val))
    ELSE IF is_uint32(value)
    THEN LET v == try_as_u32(value) IN IF ~v.ok THEN v ELSE Ok(Value_from_u32(v.val))
    ELSE IF is_big_int(value)
    THEN LET v == try_as_i64(value) IN IF ~v.ok THEN v ELSE Ok(Value_from_i64(v.val))
    ELSE IF is_number(value)
    THEN LET v == try_as_f64(value) IN IF ~v.ok THEN v ELSE Ok(Value_from_f64(v.val))
    ELSE IF is_boolean(value)
    THEN LET v == try_as_bool(value) IN IF ~v.ok THEN v ELSE Ok(Value_from_bool(v.val))
    ELSE IF is_null(value) THEN Ok(JNull)
    ELSE IF is_array(value) THEN v8_array_to_json(value)
    ELSE IF is_object(value) THEN v8_object_to_json(value)
    ELSE Err(UnsupportedValueType)

---------------------------------------------------------------------------
(* The values the model draws its inputs from.                             *)

\* longest sequence (array, Vec) drawn
MaxLen == 2
\* longest field list given to the derive macros
MaxFields == 2

SeqsUpTo(S, n) == UNION {[1..m -> S] : m \in 0..n}

\* the records of the tests and of the sample program, and one without fields
SimpleObject ==
    T_Struct("SimpleObject",
             <<Field("yes_no", T_bool), Field("name", T_String), Field("age", T_i32),
               Field("opt", T_Option(T_i32)), Field("avg", T_f64)>>)
OptionalObject == T_Struct("OptionalObject", <<Field("opt", T_Option(T_i32))>>)
ParentObject == T_Struct("ParentObject", <<Field("nested", SimpleObject)>>)
ObjectWithVec == T_Struct("ObjectWithVec", <<Field("vec", T_Vec(T_i32))>>)
NoFields == T_Struct("NoFields", <<>>)

StructTypes == {SimpleObject, OptionalObject, ParentObject, ObjectWithVec, NoFields}
OtherTypes ==
    {T_bool, T_String, T_i32, T_f64, T_Option(T_i32), T_Option(T_String),
     T_Option(T_Vec(T_i32)), T_Option(OptionalObject), T_Vec(T_i32),
     T_Vec(T_Option(T_i32)), T_Vec(ParentObject)}

\* dynamic values that are not object-shaped
ScalarValues ==
    {Null, Undefined, Boolean(TRUE), Boolean(FALSE), Integer_new(0), Integer_new(42),
     Number(Fin(42, 42)), Number(NaN), String(""), String("John"), String("-10"),
     String("123.789"), Symbol}

\* arrays: every slot a value, a hole or a throwing accessor
ArraySlots == {Integer_new(1), Integer_new(2), Null, Symbol, Hole, Thrower}
ArrayValues == {Array(e) : e \in SeqsUpTo(ArraySlots, MaxLen)}

\* a property of an object under decode: absent, or one of these
Absent == [tag |-> "absent"]
PropSlots == {Thrower, Null, Symbol, Integer_new(42)}

RECURSIVE EntriesOf(_, _, _)
EntriesOf(names, choice, j) ==
    IF j > Len(names) THEN <<>>
    ELSE (IF choice[j] = Absent THEN <<>> ELSE <<[key |-> names[j], val |-> choice[j]]>>)
            \o EntriesOf(names, choice, j + 1)

\* the objects that hold, of each name, no property or one of the slots
ObjectsOver(names, slots) ==
    {Object(EntriesOf(names, c, 1), <<>>) :
        c \in [1..Len(names) -> slots \cup {Absent}]}

FieldNamesOf(T) == [j \in 1..Len(T.fields) |-> T.fields[j].name]

\* objects for the fields of SimpleObject, as a nested property
SimpleSamples ==
    {Object(<<[key |-> "yes_no", val |-> Boolean(TRUE)]>>, <<>>),
     Object(<<[key |-> "yes_no", val |-> Boolean(TRUE)],
              [key |-> "name", val |-> String("Marcel")],
              [key |-> "age", val |-> Integer_new(30)],
              [key |-> "opt", val |-> Integer_new(42)],
              [key |-> "avg", val |-> Number(Fin(42, 42))]>>, <<>>),
     Object(<<[key |-> "age", val |-> Symbol]>>, <<>>),
     Object(<<[key |-> "avg", val |-> Thrower]>>, <<>>)}

\* what a property may hold besides PropSlots, by the type of its field
ExtraSlots(T) ==
    CASE T.k = "Struct" -> SimpleSamples
      [] T.k = "Vec" -> ArrayValues
      [] OTHER -> {}

\* objects that only inherit a field, or shadow an inherited one
InheritingObjects(T) ==
    UNION {{Object(<<>>, <<[key |-> T.fields[j].name, val |-> s]>>),
            Object(<<[key |-> T.fields[j].name, val |-> Null]>>,
                   <<[key |-> T.fields[j].name, val |-> s]>>)} :
              j \in 1..Len(T.fields), s \in {Integer_new(7), Thrower}}

\* the dynamic values a record type is decoded from
DecodeInputs(T) ==
    ObjectsOver(FieldNamesOf(T),
                PropSlots \cup UNION {ExtraSlots(T.fields[j].ty) : j \in 1..Len(T.fields)})
        \cup InheritingObjects(T) \cup SimpleSamples \cup ScalarValues
        \cup {Array(<<>>)}

\* the dynamic values the other types are decoded from
OtherInputs ==
    ScalarValues \cup ArrayValues \cup ObjectsOver(<<"opt">>, PropSlots)
        \cup InheritingObjects(OptionalObject)

\* native values
I32Values == {-2147483647 - 1, -1, 0, 42, 2147483647}
F64Values == {Fin(42, 42), Fin(0, 0), NaN}
SimpleValues ==
    [yes_no : BOOLEAN, name : {"", "John"}, age : {-1, 42},
     opt : {None, Some(0), Some(42)}, avg : F64Values]
ParentSamples ==
    {[nested |-> [yes_no |-> TRUE, name |-> "John", age |-> 42, opt |-> Some(42),
                  avg |-> Fin(42, 42)]],
     [nested |-> [yes_no |-> FALSE, name |-> "", age |-> -1, opt |-> None,
                  avg |-> NaN]],
     [nested |-> [yes_no |-> TRUE, name |-> "", age |-> 42, opt |-> Some(0),
                  avg |-> Fin(0, 0)]]}

\* the native values of a type that the model encodes
NativeValues(T) ==
    CASE T = SimpleObject -> SimpleValues
      [] T = OptionalObject -> [opt : {None, Some(0), Some(42)}]
      [] T = ParentObject -> [nested : SimpleValues]
      [] T = ObjectWithVec -> [vec : SeqsUpTo(I32Values, MaxLen)]
      [] T = NoFields -> {<<>>}
      [] T = T_Vec(T_i32) -> SeqsUpTo(I32Values, MaxLen)
      [] T = T_Vec(T_Option(T_i32)) -> SeqsUpTo({None, Some(0), Some(42)}, MaxLen)
      [] T = T_Vec(ParentObject) -> SeqsUpTo(ParentSamples, MaxLen)
      [] T = T_Option(T_i32) -> {None} \cup {Some(n) : n \in I32Values}
      [] T = T_Option(T_String) -> {None, Some(""), Some("John")}
      [] T = T_Option(T_Vec(T_i32)) -> {None} \cup {Some(s) : s \in SeqsUpTo(I32Values, 1)}
      [] T = T_Option(OptionalObject) -> {None, Some([opt |-> None]), Some([opt |-> Some(42)])}
      [] T = T_bool -> BOOLEAN
      [] T = T_String -> {"", "John"}
      [] T = T_i32 -> I32Values
      [] T = T_f64 -> F64Values

\* the derive macros' inputs: the kind of item, the style of a struct's
\* field list, and of each field its name (none in a tuple struct) and
\* whether its type is a plain type path
DeriveFields ==
    [ident : {None, Some("a"), Some("b")}, ty : {"Path", "Other"}]
NamedFieldLists ==
    {s \in SeqsUpTo(DeriveFields, MaxFields) :
        /\ \A j \in 1..Len(s) : s[j].ident.some
        /\ \A j, q \in 1..Len(s) : j # q => s[j].ident # s[q].ident}
UnnamedFieldLists ==
    {s \in SeqsUpTo(DeriveFields, MaxFields) : \A j \in 1..Len(s) : ~s[j].ident.some}
DeriveItems ==
    {[data |-> "Struct", style |-> "Named", fields |-> fs] : fs \in NamedFieldLists}
        \cup {[data |-> "Struct", style |-> "Unnamed", fields |-> fs] :
                 fs \in UnnamedFieldLists}
        \cup {[data |-> "Struct", style |-> "Unit", fields |-> <<>>],
              [data |-> "Enum", style |-> "Unit", fields |-> <<>>],
              [data |-> "Union", style |-> "Unit", fields |-> <<>>]}

---------------------------------------------------------------------------
(* The state machine: one call at a time.  A record's generated decoder    *)
(* and encoder run field by field; the other conversions are one step.     *)

NoResult == [ok |-> FALSE, err |-> [kind |-> "NoResult"]]
NoItem == [data |-> "None", style |-> "Unit", fields |-> <<>>]

Init ==
    /\ pc = "idle"
    /\ op = "none"
    /\ ty = T_bool
    /\ key_name = ""
    /\ js_input = Undefined
    /\ native = FALSE
    /\ idx = 1
    /\ built = <<>>
    /\ object = Undefined
    /\ created = 0
    /\ log = <<>>
    /\ calls = <<>>
    /\ ret = NoResult
    /\ item = NoItem
    /\ implementation = <<>>
    /\ outcome = "none"

\* T::try_from_value(input) for a type that is not a record
CallTryFromValue ==
    /\ pc = "idle"
    /\ \E T \in OtherTypes, v \in OtherInputs :
        /\ ty' = T
        /\ js_input' = v
        /\ \E d \in {IF T.k = "Option" THEN Option_try_from_value(T.of, v)
                      ELSE [r |-> TryFromValue(T, v), calls |-> <<>>]} :
            /\ ret' = d.r
            /\ calls' = d.calls
    /\ op' = "try_from_value"
    /\ pc' = "done"
    /\ UNCHANGED <<key_name, native, idx, built, object, created, log, item,
                   implementation, outcome>>

\* get_field_as(field_name, input, scope, parse_fn)
CallGetFieldAs ==
    /\ pc = "idle"
    /\ \E name \in {"opt", "age"}, v \in OtherInputs,
          T \in {T_i32, T_String, T_Vec(T_i32)} :
        /\ key_name' = name
        /\ ty' = T
        /\ js_input' = v
        /\ \E a \in {get_field_as(name, v, T)} :
            /\ ret' = a.r
            /\ calls' = a.calls
    /\ op' = "get_field_as"
    /\ pc' = "done"
    /\ UNCHANGED <<native, idx, built, object, created, log, item, implementation,
                   outcome>>

\* get_optional_field_as(field_name, input, scope, parse_fn)
CallGetOptionalFieldAs ==
    /\ pc = "idle"
    /\ \E name \in {"opt", "age"}, v \in OtherInputs,
          T \in {T_i32, T_String, T_Vec(T_i32)} :
        /\ key_name' = name
        /\ ty' = T
        /\ js_input' = v
        /\ \E a \in {get_optional_field_as(name, v, T)} :
            /\ ret' = a.r
            /\ calls' = a.calls
    /\ op' = "get_optional_field_as"
    /\ pc' = "done"
    /\ UNCHANGED <<native, idx, built, object, created, log, item, implementation,
                   outcome>>

\* the generated try_from_value of a record is entered
BeginDecode ==
    /\ pc = "idle"
    /\ \E T \in StructTypes : \E v \in DecodeInputs(T) :
        /\ ty' = T
        /\ js_input' = v
    /\ op' = "decode"
    /\ pc' = "decode"
    /\ idx' = 1
    /\ built' = <<>>
    /\ log' = <<>>
    /\ calls' = <<>>
    /\ UNCHANGED <<key_name, native, object, created, ret, item, implementation, outcome>>

\* mutant: a failed field access is skipped instead of returned
DecodeField_skips_failure ==
    /\ pc = "decode"
    /\ idx <= Len(ty.fields)
    /\ \E f \in {ty.fields[idx]} : \E a \in {quote_get_field_as(f, js_input)} :
           /\ log' = Append(log, f.name)
           /\ calls' = calls \o a.calls
           /\ built' = IF a.r.ok THEN built @@ (f.name :> a.r.val) ELSE built
           /\ idx' = idx + 1
    /\ UNCHANGED <<pc, ret, op, ty, key_name, js_input, native, object, created, item,
                   implementation, outcome>>

\* the next field initialiser of Ok(Self { ... }): the access, and `?`
DecodeField ==
    /\ pc = "decode"
    /\ idx <= Len(ty.fields)
    /\ \E f \in {ty.fields[idx]} : \E a \in {quote_get_field_as(f, js_input)} :
           /\ log' = Append(log, f.name)
           /\ calls' = calls \o a.calls
           /\ IF a.r.ok
              THEN /\ built' = built @@ (f.name :> a.r.val)
                   /\ idx' = idx + 1
                   /\ UNCHANGED <<pc, ret>>
              ELSE /\ ret' = a.r
                   /\ pc' = "done"
                   /\ UNCHANGED <<built, idx>>
    /\ UNCHANGED <<op, ty, key_name, js_input, native, object, created, item,
                   implementation, outcome>>

\* every field initialiser succeeded: Ok(Self { ... })
DecodeReturn ==
    /\ pc = "decode"
    /\ idx > Len(ty.fields)
    /\ ret' = Ok(built)
    /\ pc' = "done"
    /\ UNCHANGED <<op, ty, key_name, js_input, native, idx, built, object, created, log,
                   calls, item, implementation, outcome>>

\* the generated into_value of a record is entered: let object = v8::Object::new(scope)
BeginEncode ==
    /\ pc = "idle"
    /\ \E T \in StructTypes : \E x \in NativeValues(T) :
        /\ ty' = T
        /\ native' = x
    /\ op' = "encode"
    /\ pc' = "encode"
    /\ object' = Object_new
    /\ created' = created + 1
    /\ idx' = 1
    /\ log' = <<>>
    /\ UNCHANGED <<key_name, js_input, built, calls, ret, item, implementation, outcome>>

\* the next generated field write
EncodeField ==
    /\ pc = "encode"
    /\ idx <= Len(ty.fields)
    /\ object' = write_field(ty.fields[idx], native, object)
    /\ log' = Append(log, ty.fields[idx].name)
    /\ idx' = idx + 1
    /\ UNCHANGED <<pc, op, ty, key_name, js_input, native, built, created, calls, ret,
                   item, implementation, outcome>>

\* object.into(): the encoder returns the object
EncodeReturn ==
    /\ pc = "encode"
    /\ idx > Len(ty.fields)
    /\ js_input' = object
    /\ pc' = "encoded"
    /\ UNCHANGED <<op, ty, key_name, native, idx, built, object, created, log, calls,
                   ret, item, implementation, outcome>>

\* x.into_value(scope) for a type that is not a record
CallIntoValue ==
    /\ pc = "idle"
    /\ \E T \in OtherTypes : \E x \in NativeValues(T) :
        /\ ty' = T
        /\ native' = x
        /\ js_input' = IntoValue(T, x)
    /\ op' = "encode"
    /\ pc' = "encoded"
    /\ UNCHANGED <<key_name, idx, built, object, created, log, calls, ret, item,
                   implementation, outcome>>

\* the encoded value is decoded as the type it was encoded from (main.rs)
DecodeEncoded ==
    /\ pc = "encoded"
    /\ op' = "round_trip"
    /\ IF ty.k = "Struct"
       THEN /\ pc' = "decode"
            /\ idx' = 1
            /\ built' = <<>>
            /\ calls' = <<>>
            /\ UNCHANGED ret
       ELSE /\ pc' = "done"
            /\ \E d \in {IF ty.k = "Option"
                          THEN Option_try_from_value(ty.of, js_input)
                          ELSE [r |-> TryFromValue(ty, js_input), calls |-> <<>>]} :
                /\ ret' = d.r
                /\ calls' = d.calls
            /\ UNCHANGED <<idx, built>>
    /\ log' = <<>>
    /\ UNCHANGED <<ty, key_name, js_input, native, object, created, item,
                   implementation, outcome>>

---------------------------------------------------------------------------
(* The derive macros (v8_derive_macros): FromValue and IntoValue.          *)

\* #[proc_macro_derive(FromValue)] or #[proc_macro_derive(IntoValue)] is
\* applied to an item
BeginDerive ==
    /\ pc = "idle"
    /\ \E m \in {"derive_FromValue", "derive_IntoValue"}, it \in DeriveItems :
        /\ op' = m
        /\ item' = it
    /\ pc' = "derive"
    /\ idx' = 1
    /\ implementation' = <<>>
    /\ UNCHANGED <<ty, key_name, js_input, native, built, object, created, log, calls,
                   ret, outcome>>

\* match &input.data { ..., _ => panic!("Only structs are supported") }
DeriveNotStruct ==
    /\ pc = "derive"
    /\ item.data # "Struct"
    /\ outcome' = "panicked"
    /\ pc' = "done"
    /\ UNCHANGED <<op, ty, key_name, js_input, native, idx, built, object, created, log,
                   calls, ret, item, implementation>>

\* for field in fields: a field without a name is skipped; a field whose
\* type is a plain path adds its implementation; any other type is
\* unimplemented!()
DeriveField ==
    /\ pc = "derive"
    /\ item.data = "Struct"
    /\ idx <= Len(item.fields)
    /\ LET f == item.fields[idx]
       IN  IF ~f.ident.some
           THEN /\ idx' = idx + 1
                /\ UNCHANGED <<pc, implementation, outcome>>
           ELSE IF f.ty = "Path"
           THEN /\ implementation' = Append(implementation, f.ident.v)
                /\ idx' = idx + 1
                /\ UNCHANGED <<pc, outcome>>
           ELSE /\ outcome' = "panicked"
                /\ pc' = "done"
                /\ UNCHANGED <<idx, implementation>>
    /\ UNCHANGED <<op, ty, key_name, js_input, native, built, object, created, log,
                   calls, ret, item>>

\* quote! { impl ... for #struct_identifier { ... #implementation ... } }
DeriveEmit ==
    /\ pc = "derive"
    /\ item.data = "Struct"
    /\ idx > Len(item.fields)
    /\ outcome' = "emitted"
    /\ pc' = "done"
    /\ UNCHANGED <<op, ty, key_name, js_input, native, idx, built, object, created, log,
                   calls, ret, item, implementation>>

---------------------------------------------------------------------------
(* try_as_vec, element by element.                                         *)

\* the element types of the sequences decoded step by step
VecElementTypes == {T_i32, T_Vec(T_i32), OptionalObject}

\* dynamic values that are not arrays: scalars, plain objects (one of them
\* array-like) and maps
NotArrays ==
    ScalarValues \cup
    {Object_new,
     Object(<<[key |-> "0", val |-> Integer_new(1)],
              [key |-> "length", val |-> Integer_new(1)]>>, <<>>),
     Map(<<>>),
     Map(<<[key |-> String("a"), val |-> Integer_new(1)]>>)}

\* arrays whose elements are arrays or objects
NestedArrays ==
    {Array(e) :
        e \in SeqsUpTo({Integer_new(1), Array(<<Symbol>>), Array(<<Integer_new(1)>>),
                        Object(<<[key |-> "opt", val |-> Symbol]>>, <<>>),
                        Object(<<[key |-> "opt", val |-> Integer_new(42)]>>, <<>>),
                        Thrower}, MaxLen)}

VecInputs == ArrayValues \cup NestedArrays \cup NotArrays

\* try_as_vec is entered: the shape check, the cast and the empty result
BeginDecodeVec ==
    /\ pc = "idle"
    /\ \E T \in VecElementTypes, v \in VecInputs :
        /\ ty' = T_Vec(T)
        /\ js_input' = v
        /\ IF ~is_array(v)
           THEN /\ ret' = Err(ExpectedArray)
                /\ pc' = "done"
           ELSE /\ pc' = "vec"
                /\ UNCHANGED ret
    /\ op' = "try_as_vec"
    /\ idx' = 0
    /\ built' = <<>>
    /\ log' = <<>>
    /\ calls' = <<>>
    /\ UNCHANGED <<key_name, native, object, created, item, implementation, outcome>>

\* mutant: an element that fails to decode is left out and the loop goes on
DecodeElement_skips_failure ==
    /\ pc = "vec"
    /\ idx < length(js_input)
    /\ LET element == get_index(js_input, idx)
       IN  IF ~element.some
           THEN UNCHANGED <<built, log, calls>>
           ELSE \E e \in {TryFromValue(ty.of, element.v)} :
                    /\ log' = Append(log, idx)
                    /\ calls' = Append(calls, element.v)
                    /\ built' = IF e.ok THEN Append(built, e.val) ELSE built
    /\ idx' = idx + 1
    /\ UNCHANGED <<pc, ret, op, ty, key_name, js_input, native, object, created, item,
                   implementation, outcome>>

\* mutant: the decoded element is put in front of the result
DecodeElement_prepends ==
    /\ pc = "vec"
    /\ idx < length(js_input)
    /\ LET element == get_index(js_input, idx)
       IN  IF ~element.some
           THEN /\ idx' = idx + 1
                /\ UNCHANGED <<pc, ret, built, log, calls>>
           ELSE \E e \in {TryFromValue(ty.of, element.v)} :
                    /\ log' = Append(log, idx)
                    /\ calls' = Append(calls, element.v)
                    /\ IF e.ok
                       THEN /\ built' = <<e.val>> \o built
                            /\ idx' = idx + 1
                            /\ UNCHANGED <<pc, ret>>
                       ELSE /\ ret' = e
                            /\ pc' = "done"
                            /\ UNCHANGED <<built, idx>>
    /\ UNCHANGED <<op, ty, key_name, js_input, native, object, created, item,
                   implementation, outcome>>

\* one turn of for i in 0..length: the element at index i is looked up,
\* decoded with T::try_from_value(..)? and pushed
DecodeElement ==
    /\ pc = "vec"
    /\ idx < length(js_input)
    /\ LET element == get_index(js_input, idx)
       IN  IF ~element.some
           THEN /\ idx' = idx + 1
                /\ UNCHANGED <<pc, ret, built, log, calls>>
           ELSE \E e \in {TryFromValue(ty.of, element.v)} :
                    /\ log' = Append(log, idx)
                    /\ calls' = Append(calls, element.v)
                    /\ IF e.ok
                       THEN /\ built' = Append(built, e.val)
                            /\ idx' = idx + 1
                            /\ UNCHANGED <<pc, ret>>
                       ELSE /\ ret' = e
                            /\ pc' = "done"
                            /\ UNCHANGED <<built, idx>>
    /\ UNCHANGED <<op, ty, key_name, js_input, native, object, created, item,
                   implementation, outcome>>

\* the loop is over: Ok(result)
DecodeVecReturn ==
    /\ pc = "vec"
    /\ idx >= length(js_input)
    /\ ret' = Ok(built)
    /\ pc' = "done"
    /\ UNCHANGED <<op, ty, key_name, js_input, native, idx, built, object, created, log,
                   calls, item, implementation, outcome>>

---------------------------------------------------------------------------
(* Mappings: try_as_hashmap, and the encoders of HashMap.                  *)

\* most keys of a native mapping drawn
MaxKeys == 3

\* the value types of the mappings decoded
HashValueTypes == {T_i32, T_String, T_Vec(T_i32), T_HashMap(T_String, T_i32)}

HashNames == <<"b", "2", "1">>
HashSlots == {Integer_new(42), Symbol, Thrower, Array(<<Integer_new(1)>>)}

\* objects with inherited, shadowed and non-enumerable properties
PrototypeObjects ==
    {Object(<<[key |-> "a", val |-> Integer_new(42)]>>,
            <<[key |-> "p", val |-> Integer_new(7)]>>),
     Object(<<>>, <<[key |-> "p", val |-> Integer_new(7)]>>),
     Object(<<[key |-> "p", val |-> Integer_new(1)]>>,
            <<[key |-> "p", val |-> Integer_new(7)], [key |-> "3", val |-> Integer_new(7)]>>),
     Object(<<[key |-> "a", val |-> Integer_new(42)],
              [key |-> "h", val |-> Integer_new(7), enumerable |-> FALSE]>>, <<>>),
     Object(<<[key |-> "h", val |-> Symbol, enumerable |-> FALSE]>>,
            <<[key |-> "p", val |-> Symbol]>>)}

HashObjects == ObjectsOver(HashNames, HashSlots) \cup PrototypeObjects

\* a plain object of own enumerable data properties and no prototype properties
IsDataObject(o) ==
    /\ o.tag = "object"
    /\ o.proto = <<>>
    /\ \A j \in 1..Len(o.props) : Enumerable(o.props[j]) /\ o.props[j].val # Thrower

\* a map whose keys are all text
IsTextKeyedMap(m) ==
    m.tag = "map" /\ \A j \in 1..Len(m.entries) : m.entries[j].key.tag = "string"

\* the map that holds the properties of a data object as its pairs, and back
MapOf(o) ==
    Map([j \in 1..Len(o.props) |->
            [key |-> String(o.props[j].key), val |-> o.props[j].val]])
ObjectOf(m) ==
    Object([j \in 1..Len(m.entries) |->
               [key |-> m.entries[j].key.s, val |-> m.entries[j].val]], <<>>)

\* maps with keys that are not text
OtherKeyMaps ==
    {Map(<<[key |-> Integer_new(1), val |-> Integer_new(42)],
           [key |-> String("1"), val |-> Integer_new(7)]>>),
     Map(<<[key |-> Integer_new(2), val |-> Integer_new(42)],
           [key |-> Integer_new(1), val |-> Integer_new(7)]>>),
     Map(<<[key |-> Boolean(TRUE), val |-> Integer_new(42)]>>),
     Map(<<[key |-> Symbol, val |-> Integer_new(42)]>>)}

HashMaps ==
    {MapOf(o) : o \in {q \in ObjectsOver(HashNames, HashSlots) : IsDataObject(q)}}
        \cup OtherKeyMaps

HashInputs == HashObjects \cup HashMaps \cup ScalarValues \cup ArrayValues

\* HashMap::<String, T>::try_from_value(input)
CallTryAsHashmap ==
    /\ pc = "idle"
    /\ \E T \in HashValueTypes, v \in HashInputs :
        /\ ty' = T_HashMap(T_String, T)
        /\ js_input' = v
        /\ ret' = try_as_hashmap(T, v)
    /\ op' = "try_as_hashmap"
    /\ pc' = "done"
    /\ UNCHANGED <<key_name, native, idx, built, object, created, log, calls, item,
                   implementation, outcome>>

\* native mappings: integer keys with text values, text keys with integer values
NativeMaps(K) ==
    IF K = T_i32
    THEN UNION {[S -> {"one", ""}] : S \in SUBSET (1..MaxKeys)}
    ELSE UNION {[S -> {1, -1}] : S \in SUBSET {"one", "2"}}

\* the orders a HashMap may iterate its keys in
IterationOrders(self) ==
    {o \in [1..Cardinality(DOMAIN self) -> DOMAIN self] :
        \A i, j \in 1..Cardinality(DOMAIN self) : i # j => o[i] # o[j]}

\* map.into_value(scope) or map.into_object(scope) of a HashMap<K, T>
CallHashMapInto ==
    /\ pc = "idle"
    /\ \E K \in {T_i32, T_String}, form \in {"into_value", "into_object"} :
        \E x \in NativeMaps(K) : \E order \in IterationOrders(x) :
          LET T == IF K = T_i32 THEN T_String ELSE T_i32
          IN  /\ ty' = T_HashMap(K, T)
              /\ native' = x
              /\ js_input' = IF form = "into_value"
                             THEN HashMap_into_value(K, T, x, order)
                             ELSE HashMap_into_object(K, T, x, order)
    /\ op' = "encode"
    /\ pc' = "encoded"
    /\ UNCHANGED <<key_name, idx, built, object, created, log, calls, ret, item,
                   implementation, outcome>>

---------------------------------------------------------------------------
(* The scalar decoders on every kind of dynamic value.                     *)

ScalarTypes == {T_bool, T_String, T_i32, T_u32, T_i64, T_f64, T_f32, T_i8}

\* 2^64 + 5 and 7 - 2^64: integers whose low 64 bits are 5 and 7
Beyond64 == MkBig(FALSE, MagAdd(Pow2_64, <<5>>))
BelowMinus64 == MkBig(TRUE, MagSub(Pow2_64, <<7>>))

\* big integers of the engine, within and beyond each native width
BigInts ==
    {BigInt(b) : b \in {BigZero, BigOfInt(42), BigOfInt(-1), u32_MAX,
                         MkBig(FALSE, Pow2_32), i64_MAX, i64_MIN,
                         MkBig(FALSE, Pow2_63), u64_MAX, Beyond64, BelowMinus64}}

\* numbers at and around the bounds of the native widths
NumberValues ==
    {Integer_new(n) : n \in {-129, -128, -1, 127, 128, 1024, 2147483647}}
        \cup {Number(Fin(1, 50)), Number(Fin(-1, -50)), Number(Fin(-2147483647 - 1, 0)),
              Number(Wide(MkBig(FALSE, Pow2_31))), Number(Wide(u32_MAX)),
              Number(Wide(MkBig(FALSE, MagAdd(Pow2_32, <<5>>)))),
              Number(Wide(MkBig(TRUE, MagAdd(Pow2_31, <<1>>))))}

\* text that reads as a number
NumericText ==
    {String(t) : t \in {"123", "127", "128", "-128", "-129", "1024", "+7", "1.5",
                          "4294967295", "4294967296", "-1",
                          "18446744073709551621", "-18446744073709551609"}}

DynamicValues ==
    OtherInputs \cup BigInts \cup NumberValues \cup NumericText
        \cup {Map_new, Map_set(Map_new, String("a"), Integer_new(1)), Array(<<Integer_new(300)>>),
              Array(<<String("-7")>>)}

\* a scalar decoder (helpers.rs try_as_*, through from.rs) on a dynamic value
CallScalarDecoder ==
    /\ pc = "idle"
    /\ \E T \in ScalarTypes, v \in DynamicValues :
        /\ ty' = T
        /\ js_input' = v
        /\ ret' = TryFromValue(T, v)
    /\ op' = "try_as"
    /\ pc' = "done"
    /\ UNCHANGED <<key_name, native, idx, built, object, created, log, calls, item,
                   implementation, outcome>>

---------------------------------------------------------------------------
(* The scalar encoders, and the decoder of the same type on what they give. *)

EncodableScalars == {T_bool, T_i32, T_u32, T_i64, T_f64, T_f32, T_String}

\* a text of the engine's maximum string length, and a longer one
LongestText == "abcdefghijklmnopqrstuvwx"
OverLongText == "abcdefghijklmnopqrstuvwxyz"

\* native values of the scalar types, the extremes of each among them
ScalarNatives(T) ==
    CASE T = T_bool -> BOOLEAN
      [] T = T_i32 -> I32Values
      [] T = T_u32 -> {BigZero, BigOfInt(42), BigOfInt(2147483647), MkBig(FALSE, Pow2_31),
                       MkBig(FALSE, MagAdd(Pow2_31, <<5>>)), u32_MAX}
      [] T = T_i64 -> {i64_MIN, BigOfInt(-2147483647 - 1), BigOfInt(-1), BigZero,
                       BigOfInt(42), MkBig(FALSE, Pow2_32), i64_MAX}
      [] T = T_f64 -> F64Values \cup {Fin(-1, -50), Fin(0, 1), Fin(2147483647, 0),
                                      Wide(MkBig(FALSE, Pow2_53)), Wide(MkBig(TRUE, Pow2_63))}
      [] T = T_f32 -> {Fin(0, 0), Fin(1, 50), Fin(-2, -25), Fin(16777216, 0), NaN}
      [] T = T_String -> {"", "John", "-10", "42", LongestText, OverLongText}

\* x.into_value(scope) for a scalar x (into.rs)
CallScalarIntoValue ==
    /\ pc = "idle"
    /\ \E T \in EncodableScalars : \E x \in ScalarNatives(T) :
        /\ ty' = T
        /\ native' = x
        /\ js_input' = IntoValue(T, x)
    /\ op' = "encode"
    /\ pc' = "encoded"
    /\ UNCHANGED <<key_name, idx, built, object, created, log, calls, ret, item,
                   implementation, outcome>>

---------------------------------------------------------------------------
(* Tree values through json_to_v8 and back through v8_to_json_value.       *)

\* tree numbers: integers up to the bounds of u64 and i64, doubles with and
\* without a fraction
JsonNumbers ==
    {PosInt(u) : u \in {BigZero, BigOfInt(42), u32_MAX, i64_MAX,
                         MkBig(FALSE, Pow2_63), u64_MAX}}
        \cup {NegInt(i) : i \in {BigOfInt(-1), i64_MIN}}
        \cup {Float(d) : d \in {Fin(1, 50), Fin(0, -50), Fin(1, 0),
                                Wide(MkBig(FALSE, Pow2_53))}}

JsonLeaves ==
    {JNull, JBool(TRUE), JBool(FALSE), JString(""), JString("John")}
        \cup {JNumber(n) : n \in JsonNumbers}

JsonArrays(S) == {JArray(elems) : elems \in SeqsUpTo(S, MaxLen)}
JsonObjects(keys, S) == UNION {{JObject(m) : m \in [K -> S]} : K \in SUBSET keys}

\* arrays and objects to nest in arrays and objects
JsonNested ==
    {JArray(<<>>), JArray(<<JNumber(PosInt(u64_MAX)), JNull>>),
     JObject(Map_with_capacity), JObject([k \in {"b"} |-> JNumber(Float(Fin(1, 50)))]),
     JObject([k \in {"b"} |-> JArray(<<JString("John")>>)])}

\* the tree object of the test can_convert_json_into_a_js_object, and the
\* same with other integers beyond and within the signed 64-bit range
PersonTrees ==
    {JObject([k \in {"name", "age", "very_large_number"} |->
                 CASE k = "name" -> JString("John")
                   [] k = "age" -> JNumber(PosInt(BigOfInt(30)))
                   [] k = "very_large_number" -> JNumber(PosInt(u))]) :
        u \in {u64_MAX, MkBig(FALSE, Pow2_63), i64_MAX, BigOfInt(42)}}

TreeValues ==
    JsonLeaves \cup JsonArrays(JsonLeaves) \cup JsonObjects({"1", "a"}, JsonLeaves)
        \cup JsonArrays(JsonNested) \cup JsonObjects({"1", "a"}, JsonNested)
        \cup PersonTrees

\* json_to_v8(scope, value)
CallJsonToV8 ==
    /\ pc = "idle"
    /\ \E value \in TreeValues :
        /\ native' = value
        /\ js_input' = json_to_v8(value)
    /\ op' = "json_to_v8"
    /\ pc' = "json"
    /\ UNCHANGED <<ty, key_name, idx, built, object, created, log, calls, ret, item,
                   implementation, outcome>>

\* v8_to_json_value(scope, value) on what json_to_v8 gave
CallV8ToJsonValue ==
    /\ pc = "json"
    /\ ret' = v8_to_json_value(js_input)
    /\ op' = "json_round_trip"
    /\ pc' = "done"
    /\ UNCHANGED <<ty, key_name, js_input, native, idx, built, object, created, log,
                   calls, item, implementation, outcome>>

---------------------------------------------------------------------------
(* v8_to_json_value on every kind of dynamic value.                        *)

\* what a slot of an array or a property of an object holds
TreeSlots ==
    {Integer_new(1), String("a"), Null, Undefined, Symbol, Function, Hole, Thrower}

\* arrays and objects nested in arrays and objects
NestedInputs ==
    {Array(<<Array(<<Integer_new(1), Integer_new(2)>>), Array(<<>>)>>),
     Array(<<Array(<<Symbol>>)>>),
     Array(<<Object(<<[key |-> "a", val |-> Function]>>, <<>>)>>),
     Array(<<Object(<<[key |-> "a", val |-> Number(Fin(1, 50))]>>, <<>>), Boolean(TRUE)>>),
     Object(<<[key |-> "b", val |-> Array(<<Integer_new(2), Integer_new(1)>>)],
              [key |-> "a", val |-> Object(<<>>, <<>>)]>>, <<>>),
     Object(<<[key |-> "a", val |-> Array(<<Undefined>>)]>>, <<>>),
     Object(<<[key |-> "a", val |-> Array(<<Thrower>>)]>>, <<>>),
     Object(<<[key |-> "a", val |-> Object(<<[key |-> "b", val |-> Symbol]>>, <<>>)]>>,
            <<>>),
     Map_new, Map_set(Map_new, String("a"), Integer_new(1))}

TreeInputs ==
    ScalarValues \cup {Function} \cup BigInts \cup NumberValues
        \cup {Array(e) : e \in SeqsUpTo(TreeSlots, MaxLen)}
        \cup ObjectsOver(<<"b", "1">>, TreeSlots \ {Hole})
        \cup PrototypeObjects \cup NestedInputs

\* serde_json::Value::try_from_value(input): v8_to_json_value(scope, *input)
CallJsonTryFromValue ==
    /\ pc = "idle"
    /\ \E v \in TreeInputs :
        /\ js_input' = v
        /\ ret' = v8_to_json_value(v)
    /\ op' = "v8_to_json"
    /\ pc' = "done"
    /\ UNCHANGED <<ty, key_name, native, idx, built, object, created, log, calls, item,
                   implementation, outcome>>

\* HashMap::<String, String>::try_from_value on what json_to_v8 gave (the
\* test can_convert_json_into_a_js_object)
CallTryAsHashmapOnJson ==
    /\ pc = "json"
    /\ ty' = T_HashMap(T_String, T_String)
    /\ ret' = try_as_hashmap(T_String, js_input)
    /\ op' = "json_as_hashmap"
    /\ pc' = "done"
    /\ UNCHANGED <<key_name, js_input, native, idx, built, object, created, log,
                   calls, item, implementation, outcome>>

Next ==
    \/ CallTryFromValue
    \/ CallGetFieldAs
    \/ CallGetOptionalFieldAs
    \/ BeginDecode
    \/ DecodeField
    \/ DecodeReturn
    \/ BeginEncode
    \/ EncodeField
    \/ EncodeReturn
    \/ CallIntoValue
    \/ DecodeEncoded
    \/ BeginDerive
    \/ DeriveNotStruct
    \/ DeriveField
    \/ DeriveEmit
    \/ BeginDecodeVec
    \/ DecodeElement
    \/ DecodeVecReturn
    \/ CallTryAsHashmap
    \/ CallHashMapInto
    \/ CallScalarDecoder
    \/ CallScalarIntoValue
    \/ CallJsonToV8
    \/ CallV8ToJsonValue
    \/ CallJsonTryFromValue
    \/ CallTryAsHashmapOnJson

Spec == Init /\ [][Next]_vars

---------------------------------------------------------------------------
(* Properties.                                                             *)

\* a finished decode of a record by its generated decoder
DecodedRecord == pc = "done" /\ op \in {"decode", "round_trip"} /\ ty.k = "Struct"

\* the object neither holds nor inherits a property of this name
Missing(o, name) == o.tag = "object" /\ ~HasKey(o.props, name) /\ ~HasKey(o.proto, name)

Mandatory(f) == f.ty.k # "Option"

\* the accesses of the fields before field j all succeed
PriorOk(j) == \A q \in 1..(j - 1) : quote_get_field_as(ty.fields[q], js_input).r.ok

\* C1 as stated: decoding a record whose mandatory field is entirely
\* absent from the object fails with FieldNotFound carrying that field's
\* name (no earlier field failing), while an absent Optional field decodes
\* as None.
C1_AbsentMandatoryIsFieldNotFound ==
    DecodedRecord =>
        \A j \in 1..Len(ty.fields) :
            (Missing(js_input, ty.fields[j].name) /\ PriorOk(j)) =>
                IF Mandatory(ty.fields[j])
                THEN ret = Err(FieldNotFound(ty.fields[j].name))
                ELSE ret.ok => ret.val[ty.fields[j].name] = None

\* C1 as amended: FieldNotFound(name) is returned for the mandatory field
\* whose property lookup returns nothing (no earlier field failing); a
\* mandatory field that is entirely absent is looked up as undefined and
\* decoded by its type's decoder, never FieldNotFound; an absent Optional
\* field decodes as None.
C1_FieldNotFoundOnlyWhenLookupFails ==
    DecodedRecord /\ js_input.tag = "object" =>
        \A j \in 1..Len(ty.fields) :
            LET f == ty.fields[j]
                d == TryFromValue(f.ty, Undefined)
            IN  PriorOk(j) =>
                  /\ (Mandatory(f) /\ ~get(js_input, f.name).some)
                        => ret = Err(FieldNotFound(f.name))
                  /\ (Mandatory(f) /\ Missing(js_input, f.name))
                        => /\ ret # Err(FieldNotFound(f.name))
                           /\ ~d.ok => ret = d
                           /\ (d.ok /\ ret.ok) => ret.val[f.name] = d.val
                  /\ (~Mandatory(f) /\ Missing(js_input, f.name))
                        => /\ ret # Err(FieldNotFound(f.name))
                           /\ ret.ok => ret.val[f.name] = None

\* a record is decoded from an object that lacks the mandatory age and the
\* Optional opt: the decode succeeds, age is 0 and opt is None
C1_Witness ==
    /\ DecodedRecord /\ op = "decode" /\ ty = SimpleObject
    /\ Missing(js_input, "age") /\ Missing(js_input, "opt")
    /\ ret.ok /\ ret.val["age"] = 0 /\ ret.val["opt"] = None

\* C2: a record decodes successfully from an object that lacks mandatory
\* fields of the lenient scalar types (text, i32, f64) when its other
\* fields decode; SimpleObject decodes from an object that carries only
\* yes_no, the missing fields being "undefined", 0, None and NaN.
LenientScalar(T) == T.k \in {"String", "i32", "f64"}
C2_IncompleteObjectDecodes ==
    DecodedRecord /\ op = "decode" /\ js_input.tag = "object" =>
        /\ (\A j \in 1..Len(ty.fields) :
               IF Missing(js_input, ty.fields[j].name)
               THEN LenientScalar(ty.fields[j].ty) \/ ~Mandatory(ty.fields[j])
               ELSE quote_get_field_as(ty.fields[j], js_input).r.ok)
              => ret.ok
        /\ (ty = SimpleObject /\ js_input.proto = <<>> /\ Len(js_input.props) = 1
              /\ js_input.props[1].key = "yes_no" /\ js_input.props[1].val # Thrower)
              => ret = Ok([yes_no |-> boolean_value(js_input.props[1].val),
                           name |-> "undefined", age |-> 0, opt |-> None, avg |-> NaN])

\* SimpleObject has been decoded from the object { yes_no: true }
C2_Witness ==
    /\ DecodedRecord /\ op = "decode" /\ ty = SimpleObject
    /\ js_input = Object(<<[key |-> "yes_no", val |-> Boolean(TRUE)]>>, <<>>)
    /\ ret.ok /\ ret.val["yes_no"] = TRUE /\ ret.val["name"] = "undefined"

\* a finished T::try_from_value of an Option<T>
DecodedOption == pc = "done" /\ op = "try_from_value" /\ ty.k = "Option"

\* C3: Option<T> decodes null and undefined to None without invoking T's
\* decoder; on any other input it invokes T's decoder on that input once
\* and returns Some(v) when that yields v, and T's error otherwise.
C3_OptionDecode ==
    DecodedOption =>
        IF js_input \in {Null, Undefined}
        THEN ret = Ok(None) /\ calls = <<>>
        ELSE /\ calls = <<js_input>>
             /\ LET d == TryFromValue(ty.of, js_input)
                IN  ret = IF d.ok THEN Ok(Some(d.val)) ELSE d

\* Option<Vec<i32>> has been decoded from undefined, which Vec's decoder
\* rejects: the result is None and no decoder ran
C3_Witness ==
    /\ DecodedOption /\ ty = T_Option(T_Vec(T_i32)) /\ js_input = Undefined
    /\ ~TryFromValue(T_Vec(T_i32), Undefined).ok
    /\ ret = Ok(None) /\ calls = <<>>

\* C4: on an object-shaped input get_optional_field_as returns None without
\* invoking the decoder when the lookup returns nothing or the value is
\* null or undefined; otherwise it invokes the decoder once, on the value
\* looked up, and returns Some(v) on success or the decoder's error.
C4_GetOptionalField ==
    (pc = "done" /\ op = "get_optional_field_as" /\ is_object(js_input)) =>
        LET l == get(js_input, key_name)
        IN  IF ~l.some \/ (l.some /\ l.v \in {Null, Undefined})
            THEN ret = Ok(None) /\ calls = <<>>
            ELSE /\ calls = <<l.v>>
                 /\ LET d == TryFromValue(ty, l.v)
                    IN  ret = IF d.ok THEN Ok(Some(d.val)) ELSE d

\* get_optional_field_as has read a property whose lookup returns nothing
C4_Witness ==
    /\ pc = "done" /\ op = "get_optional_field_as" /\ js_input.tag = "object"
    /\ HasKey(js_input.props, key_name) /\ Entry(js_input.props, key_name).val = Thrower
    /\ ret = Ok(None) /\ calls = <<>>

\* C5: get_field_as and get_optional_field_as return ExpectedObject, and
\* invoke no decoder, for every input that is not object-shaped, whatever
\* the field name and the decoder; so decoding a record with at least one
\* field from such an input (null among them) fails with ExpectedObject,
\* also when all of its fields are Optional.
C5_ExpectedObject ==
    (pc = "done" /\ ~is_object(js_input)) =>
        /\ op \in {"get_field_as", "get_optional_field_as"}
              => ret = Err(ExpectedObject) /\ calls = <<>>
        /\ (op = "decode" /\ Len(ty.fields) >= 1)
              => ret = Err(ExpectedObject) /\ calls = <<>> /\ log = <<ty.fields[1].name>>

\* a record whose only field is Optional has been decoded from null
C5_Witness ==
    /\ DecodedRecord /\ ty = OptionalObject /\ js_input = Null
    /\ ret = Err(ExpectedObject)

\* the names of the first n fields of the record type, in declaration order
FirstFieldNames(n) == [j \in 1..n |-> ty.fields[j].name]

AccessOk(j) == quote_get_field_as(ty.fields[j], js_input).r.ok

\* C6: the generated decoder accesses the fields in declaration order; it
\* returns a record, holding every declared field, only if every access
\* succeeds; otherwise it returns the error of the first field whose access
\* fails, and accesses no field after it.
C6_AllOrNothing ==
    /\ (pc = "decode" /\ ty.k = "Struct") =>
          /\ log = FirstFieldNames(idx - 1)
          /\ DOMAIN built = {ty.fields[j].name : j \in 1..(idx - 1)}
          /\ \A j \in 1..(idx - 1) : AccessOk(j)
    /\ DecodedRecord =>
          /\ Len(log) <= Len(ty.fields) /\ log = FirstFieldNames(Len(log))
          /\ ret.ok <=> \A j \in 1..Len(ty.fields) : AccessOk(j)
          /\ ret.ok =>
                /\ Len(log) = Len(ty.fields)
                /\ DOMAIN ret.val = {ty.fields[j].name : j \in 1..Len(ty.fields)}
                /\ \A j \in 1..Len(ty.fields) :
                      ret.val[ty.fields[j].name]
                          = quote_get_field_as(ty.fields[j], js_input).r.val
          /\ ~ret.ok =>
                /\ Len(log) >= 1
                /\ \A j \in 1..(Len(log) - 1) : AccessOk(j)
                /\ ~AccessOk(Len(log))
                /\ ret = quote_get_field_as(ty.fields[Len(log)], js_input).r

\* SimpleObject's decode has failed at its third field, age, with two more
\* fields left unaccessed, the last of which would fail too
C6_Witness ==
    /\ DecodedRecord /\ ty = SimpleObject
    /\ log = <<"yes_no", "name", "age">> /\ ret = Err(ExpectedI32)
    /\ ~AccessOk(5)

\* a finished encode-then-decode of a native value
RoundTripped == pc = "done" /\ op = "round_trip"

RecordTypes == StructTypes \cup {T_Vec(ParentObject), T_Option(OptionalObject)}

\* C7: encoding a record (SimpleObject, a record nested in a record, records
\* in a sequence) and decoding the resulting dynamic value yields the
\* original value in every field, opt = None and opt = Some(n) included.
C7_RecordRoundTrip ==
    (RoundTripped /\ ty \in RecordTypes) => ret = Ok(native)

\* a SimpleObject with opt = None and a fractional avg has gone through
\* encode and decode
C7_Witness ==
    /\ RoundTripped /\ ty = SimpleObject
    /\ native["opt"] = None /\ native["avg"] = Fin(42, 42) /\ native["name"] = "John"
    /\ ret.ok /\ ret.val["opt"] = None

\* C8: encoding a record creates exactly one dynamic object and writes
\* exactly one property per declared field, in declaration order, each
\* under the field's own name and holding the field's encoding; the
\* returned object's property set is the declared field set.
C8_OnePropertyPerField ==
    (op = "encode" /\ ty.k = "Struct" /\ pc \in {"encode", "encoded"}) =>
        /\ created = 1
        /\ log = FirstFieldNames(idx - 1)
        /\ object.tag = "object" /\ object.proto = <<>>
        /\ Len(object.props) = idx - 1
        /\ \A j \in 1..(idx - 1) :
              object.props[j] = [key |-> ty.fields[j].name,
                                 val |-> IntoValue(ty.fields[j].ty,
                                                   native[ty.fields[j].name])]
        /\ pc = "encoded" =>
              /\ idx - 1 = Len(ty.fields)
              /\ js_input = object
              /\ OwnKeys(js_input) = {ty.fields[j].name : j \in 1..Len(ty.fields)}

\* a SimpleObject whose opt is None has been encoded
C8_Witness ==
    /\ pc = "encoded" /\ op = "encode" /\ ty = SimpleObject
    /\ native["opt"] = None
    /\ log = <<"yes_no", "name", "age", "opt", "avg">>

\* a finished run of a derive macro
Derived == pc = "done" /\ op \in {"derive_FromValue", "derive_IntoValue"}

\* a struct with plain named fields whose types are all plain type paths
PlainNamedStruct(it) ==
    /\ it.data = "Struct" /\ it.style = "Named"
    /\ \A j \in 1..Len(it.fields) : it.fields[j].ty = "Path"

\* C9: deriving a decoder or an encoder for anything but a struct with
\* plain named fields (a tuple struct, a unit struct, an enum, a union, a
\* field whose type is not a plain type path) fails at derivation: the
\* generator emits no implementation for it.
C9_OnlyPlainNamedStructs ==
    (Derived /\ ~PlainNamedStruct(item)) => outcome = "panicked"

\* C10: the encoding of a Vec<i32> s is an array of length |s| that holds
\* the encoding of s[i] at index i, and decoding it as Vec<i32> yields s:
\* the same length, the same elements, the same order; the empty sequence
\* included.
C10_SequenceRoundTrip ==
    (ty = T_Vec(T_i32) /\ op \in {"encode", "round_trip"}) =>
        /\ pc \in {"encoded", "done"} =>
              /\ js_input.tag = "array"
              /\ length(js_input) = Len(native)
              /\ \A i \in 0..(Len(native) - 1) :
                    get_index(js_input, i) = Some(i32_into_value(native[i + 1]))
        /\ pc = "done" =>
              /\ ret.ok
              /\ Len(ret.val) = Len(native)
              /\ \A i \in 1..Len(native) : ret.val[i] = native[i]

\* a two-element Vec<i32> of distinct elements has gone through encode and
\* decode
C10_Witness ==
    /\ RoundTripped /\ ty = T_Vec(T_i32)
    /\ native = <<42, -1>> /\ ret = Ok(<<42, -1>>)

\* the empty Vec<i32> has gone through encode and decode
C10_WitnessEmpty ==
    RoundTripped /\ ty = T_Vec(T_i32) /\ native = <<>> /\ ret = Ok(<<>>)

---------------------------------------------------------------------------
(* Sequences: try_as_vec.                                                  *)

\* a finished try_as_vec
DecodedVec == pc = "done" /\ op = "try_as_vec"

\* the indices of the array whose lookup gives a value and whose value the
\* element decoder rejects
FailingIndices ==
    {i \in 0..(length(js_input) - 1) :
        /\ get_index(js_input, i).some
        /\ ~TryFromValue(ty.of, get_index(js_input, i).v).ok}

\* the indices below n whose lookup gives a value, in ascending order
RECURSIVE ReadableBelow(_, _)
ReadableBelow(a, n) ==
    IF n = 0 THEN <<>>
    ELSE ReadableBelow(a, n - 1)
            \o (IF get_index(a, n - 1).some THEN <<n - 1>> ELSE <<>>)

\* C11: decoding a sequence fails with ExpectedArray, decoding no element,
\* whenever the input is not an array (a plain object, a map, null and text
\* included); on an array the elements are decoded in index order and the
\* decode stops at the first element the element decoder rejects, returning
\* that element's error and decoding no later element; when no element is
\* rejected the result holds the decoded elements in index order.
C11_SequenceDecode ==
    DecodedVec =>
        /\ ret = try_as_vec(ty.of, js_input)
        /\ ~is_array(js_input) => (ret = Err(ExpectedArray) /\ calls = <<>>)
        /\ is_array(js_input) =>
            /\ \A k \in 1..Len(log) : calls[k] = get_index(js_input, log[k]).v
            /\ IF FailingIndices # {}
               THEN LET j == CHOOSE i \in FailingIndices : \A q \in FailingIndices : i <= q
                    IN  /\ ret = TryFromValue(ty.of, get_index(js_input, j).v)
                        /\ ~ret.ok
                        /\ log = ReadableBelow(js_input, j + 1)
               ELSE /\ ret.ok
                    /\ log = ReadableBelow(js_input, length(js_input))
                    /\ Len(ret.val) = Len(log)
                    /\ \A k \in 1..Len(log) :
                          Ok(ret.val[k]) = TryFromValue(ty.of, calls[k])

\* a decode that stopped at a rejected element with a later element undecoded
C11_Witness ==
    /\ DecodedVec
    /\ is_array(js_input)
    /\ ~ret.ok
    /\ Len(log) >= 1
    /\ log[Len(log)] < length(js_input) - 1
    /\ get_index(js_input, length(js_input) - 1).some
---------------------------------------------------------------------------
(* Mappings: try_as_hashmap.                                               *)

\* a finished try_as_hashmap on an input of the caller
DecodedMap == pc = "done" /\ op = "try_as_hashmap"

\* the pairs (key text, value) a text-keyed map or a data object holds
PairsOf(v) ==
    IF v.tag = "map"
    THEN {<<v.entries[j].key.s, v.entries[j].val>> : j \in 1..Len(v.entries)}
    ELSE {<<v.props[j].key, v.props[j].val>> : j \in 1..Len(v.props)}

\* what decoding the pairs must give: an entry for each pair when every
\* value decodes, a failure otherwise
DecodesPairs(r, T, pairs) ==
    IF \A p \in pairs : TryFromValue(T, p[2]).ok
    THEN /\ r.ok
         /\ DOMAIN r.val = {p[1] : p \in pairs}
         /\ Cardinality(DOMAIN r.val) = Cardinality(pairs)
         /\ \A p \in pairs : Ok(r.val[p[1]]) = TryFromValue(T, p[2])
    ELSE ~r.ok

\* the same pairs in the other shape
Counterpart(v) == IF v.tag = "map" THEN ObjectOf(v) ELSE MapOf(v)

\* C12 as stated: the decode of a mapping fails with ExpectedMap exactly
\* when the input is neither a map nor object-shaped, and a text-keyed map
\* and the plain object of the same properties decode to equal mappings.
C12_ExpectedMapExactlyOnShape ==
    DecodedMap =>
        /\ (ret = Err(ExpectedMap)) <=> ~(is_map(js_input) \/ is_object(js_input))
        /\ (IsTextKeyedMap(js_input) \/ IsDataObject(js_input)) =>
              /\ DecodesPairs(ret, ty.of, PairsOf(js_input))
              /\ DecodesPairs(try_as_hashmap(ty.of, Counterpart(js_input)), ty.of,
                              PairsOf(js_input))
              /\ ret.ok => ret = try_as_hashmap(ty.of, Counterpart(js_input))

\* C12, amended: the decode of a mapping fails with ExpectedMap whenever
\* the input is neither a map nor object-shaped; on a map or an
\* object-shaped input it fails with ExpectedMap only when the decode of one
\* of the values does; and a text-keyed map and the plain object of the same
\* properties decode to equal mappings (same keys, same values, same size).
C12_MappingDecode ==
    DecodedMap =>
        /\ ~(is_map(js_input) \/ is_object(js_input)) => ret = Err(ExpectedMap)
        /\ (ret = Err(ExpectedMap) /\ (is_map(js_input) \/ is_object(js_input))) =>
              IF is_map(js_input)
              THEN \E j \in 1..Len(js_input.entries) :
                      TryFromValue(ty.of, js_input.entries[j].val) = Err(ExpectedMap)
              ELSE \E j \in 1..length(get_own_property_names(js_input).v) :
                      LET value == get_value(js_input,
                                             get_own_property_names(js_input).v.elems[j])
                      IN  value.some /\ TryFromValue(ty.of, value.v) = Err(ExpectedMap)
        /\ (IsTextKeyedMap(js_input) \/ IsDataObject(js_input)) =>
              /\ DecodesPairs(ret, ty.of, PairsOf(js_input))
              /\ DecodesPairs(try_as_hashmap(ty.of, Counterpart(js_input)), ty.of,
                              PairsOf(js_input))
              /\ ret.ok => ret = try_as_hashmap(ty.of, Counterpart(js_input))

\* a text-keyed map of three pairs, one key an index name, has decoded to a
\* mapping of three entries
C12_Witness ==
    /\ DecodedMap
    /\ IsTextKeyedMap(js_input)
    /\ Len(js_input.entries) = 3
    /\ ty.of = T_i32
    /\ ret.ok
    /\ DOMAIN ret.val = {"b", "2", "1"}
\* a mapping with keys of type K has gone through encode and decode
RoundTrippedMap(K) == RoundTripped /\ ty.k = "HashMap" /\ ty.key = K

\* C13: every key of a decoded mapping is the text of a key of the input;
\* a native mapping with integer keys, encoded as a map of the engine or as a
\* plain object, decodes as a text-keyed mapping of the same size whose keys
\* are the decimal strings of the integers and whose values are preserved.
C13_KeysAreText ==
    /\ (DecodedMap /\ ret.ok /\ is_map(js_input)) =>
          DOMAIN ret.val \subseteq
              {to_rust_string_lossy(js_input.entries[j].key) : j \in 1..Len(js_input.entries)}
    /\ (DecodedMap /\ ret.ok /\ js_input.tag = "object") =>
          DOMAIN ret.val \subseteq OwnKeys(js_input)
    /\ RoundTrippedMap(T_i32) =>
          /\ ret.ok
          /\ DOMAIN ret.val = {ToString(k) : k \in DOMAIN native}
          /\ Cardinality(DOMAIN ret.val) = Cardinality(DOMAIN native)
          /\ \A k \in DOMAIN native : ret.val[ToString(k)] = native[k]

\* the mapping {1: "one", 2: "one", 3: ""}, encoded as a map of the engine,
\* has been decoded
C13_Witness ==
    /\ RoundTrippedMap(T_i32)
    /\ is_map(js_input)
    /\ DOMAIN native = {1, 2, 3}
    /\ native[3] = ""
    /\ ret.ok
    /\ DOMAIN ret.val = {"1", "2", "3"}

\* the same through a plain object
C13_WitnessObject ==
    /\ RoundTrippedMap(T_i32)
    /\ js_input.tag = "object"
    /\ DOMAIN native = {1, 2, 3}
    /\ ret.ok
    /\ DOMAIN ret.val = {"1", "2", "3"}

\* the names of the own enumerable properties of a plain object
OwnEnumerableKeys(o) ==
    {o.props[j].key : j \in {q \in 1..Len(o.props) : Enumerable(o.props[q])}}

\* the names a plain object only inherits
InheritedOnlyKeys(o) ==
    {o.proto[j].key : j \in 1..Len(o.proto)} \ OwnKeys(o)

\* C14: a mapping decoded from a plain object has one entry for each of the
\* object's own enumerable property names, holding the decoded value of
\* that property, and no entry for a property the object only inherits.
C14_OwnPropertiesOnly ==
    (DecodedMap /\ js_input.tag = "object" /\ ret.ok) =>
        /\ DOMAIN ret.val = OwnEnumerableKeys(js_input)
        /\ DOMAIN ret.val \cap InheritedOnlyKeys(js_input) = {}
        /\ \A name \in OwnEnumerableKeys(js_input) :
              Ok(ret.val[name]) = TryFromValue(ty.of, get(js_input, name).v)

\* an object with an own property and an inherited one has been decoded
C14_Witness ==
    /\ DecodedMap
    /\ js_input.tag = "object"
    /\ ret.ok
    /\ OwnEnumerableKeys(js_input) # {}
    /\ InheritedOnlyKeys(js_input) # {}
---------------------------------------------------------------------------
(* C15: the 32-bit unsigned decoder.                                       *)

DecodedScalar(T) == pc = "done" /\ op = "try_as" /\ ty = T

\* C15: try_as_u32 returns a value the engine tags as uint32 unchanged and 0
\* for null and undefined; of any other value the big-integer coercion is
\* attempted, and a coerced integer that is negative or does not fit in 32
\* bits, however large, fails with OutOfRange while one in 0..2^32-1 is
\* returned unchanged
C15_U32Decode ==
    DecodedScalar(T_u32) =>
        IF is_uint32(js_input) THEN ret = Ok(BigOfDouble(js_input.num))
        ELSE IF is_null_or_undefined(js_input) THEN ret = Ok(BigZero)
        ELSE LET b == to_big_int(js_input)
             IN  b.some =>
                    IF b.v.neg \/ MagCmp(b.v.mag, Pow2_32) >= 0
                    THEN ret = Err(OutOfRange)
                    ELSE ret = Ok(b.v)

---------------------------------------------------------------------------
(* C16: the 8-bit signed decoder.                                          *)

\* C16: try_as_i8 applies the 32-bit signed decode and narrows its result:
\* a result within -128..127 is returned (the text "-10" gives -10), any
\* other fails with OutOfRange (the text "1024"), none is wrapped
C16_I8Decode ==
    DecodedScalar(T_i8) =>
        LET i == try_as_i32(js_input)
        IN  /\ ~i.ok => ret = i
            /\ i.ok /\ i.val \in -128..127 => ret = Ok(i.val)
            /\ i.ok /\ i.val \notin -128..127 => ret = Err(OutOfRange)
            /\ js_input = String("-10") => ret = Ok(-10)
            /\ js_input = String("1024") => ret = Err(OutOfRange)

C16_Witness ==
    /\ DecodedScalar(T_i8)
    /\ js_input = String("1024")
    /\ ret = Err(OutOfRange)

---------------------------------------------------------------------------
(* C17: which scalar decoders never fail.                                  *)

\* the engine's numeric coercion of a value throws: a symbol, a big integer,
\* an object whose conversion to a primitive throws
CoercionThrows(v) == ~number_value(v).some

\* C17 as stated: the boolean, text and 32-bit signed integer decoders return
\* a success value for every dynamic value
C17_TotalDecoders ==
    (\E T \in {T_bool, T_String, T_i32} : DecodedScalar(T)) => ret.ok

\* C17 amended: the boolean and text decoders succeed on every dynamic value;
\* the 32-bit signed integer decoder succeeds on every value the engine can
\* coerce to a number and fails with ExpectedI32 on the others (a symbol, a
\* big integer)
C17_TotalUnlessCoercionThrows ==
    /\ DecodedScalar(T_bool) => ret.ok /\ ret.val \in BOOLEAN
    /\ DecodedScalar(T_String) => ret.ok
    /\ DecodedScalar(T_i32) =>
        /\ CoercionThrows(js_input) <=> ret = Err(ExpectedI32)
        /\ ~CoercionThrows(js_input) <=> ret.ok
        /\ js_input.tag \in {"symbol", "bigint"} => CoercionThrows(js_input)
        /\ js_input.tag \in {"null", "undefined", "boolean", "number", "string",
                              "object", "map"} => ~CoercionThrows(js_input)

C17_Witness ==
    /\ DecodedScalar(T_i32)
    /\ js_input = Symbol
    /\ ret = Err(ExpectedI32)

---------------------------------------------------------------------------
(* C18: scalars through encode and decode.                                 *)

\* C18 as stated: for each scalar type with an encoder and every native
\* value x of it, decoding the encoding of x with the decoder of the same
\* type succeeds and returns x
C18_ScalarRoundTrip ==
    (RoundTripped /\ ty \in EncodableScalars) => ret = Ok(native)

\* C18 amended: so it is for bool, i32, u32, i64, f64, f32 and for every text
\* within the engine's maximum string length; a longer text is encoded as
\* the empty text and comes back empty
C18_ScalarRoundTripWithinMaxLength ==
    (RoundTripped /\ ty \in EncodableScalars) =>
        IF ty = T_String /\ Len(native) > kMaxLength
        THEN js_input = String("") /\ ret = Ok("")
        ELSE ret = Ok(native)

\* the largest u32 has gone through encode and decode
C18_Witness ==
    /\ RoundTripped
    /\ ty = T_u32
    /\ native = u32_MAX
    /\ js_input = Number(Wide(u32_MAX))
    /\ ret = Ok(u32_MAX)

---------------------------------------------------------------------------
(* C19, C20: tree values.                                                  *)

JsonEncoded == pc = "json" /\ op = "json_to_v8"
JsonRoundTripped == pc = "done" /\ op = "json_round_trip"

BeyondI64(n) == n.n = "pos" /\ BigLess(i64_MAX, n.big)

\* a tree value with every integer beyond the signed 64-bit range replaced
\* by the maximum signed 64-bit integer
RECURSIVE Clamped(_)
Clamped(v) ==
    CASE v.j = "number" -> IF BeyondI64(v.n) THEN JNumber(PosInt(i64_MAX)) ELSE v
      [] v.j = "array" -> JArray([q \in 1..Len(v.elems) |-> Clamped(v.elems[q])])
      [] v.j = "object" -> JObject([k \in DOMAIN v.members |-> Clamped(v.members[k])])
      [] OTHER -> v

\* C19: for every tree value v, v8_to_json_value(json_to_v8(v)) succeeds and
\* equals v, except that integers beyond the signed 64-bit range come back
\* as the maximum signed 64-bit integer
C19_TreeRoundTrip ==
    JsonRoundTripped => ret = Ok(Clamped(native))

\* the dynamic value is a number or big integer that holds exactly b
IsExactInteger(v, b) ==
    \/ v = BigInt(b)
    \/ /\ v.tag = "number"
       /\ v.num.k = "wide" \/ (v.num.k = "fin" /\ v.num.f = 0)
       /\ BigOfDouble(v.num) = b

\* C20: json_to_v8 encodes an integral tree number within the signed 64-bit
\* range as an exact integer, a number with a fraction as a double, and an
\* unsigned integer above 2^63-1 as the maximum signed 64-bit integer
C20_NumberRouting ==
    (JsonEncoded /\ native.j = "number") =>
        LET n == native.n
        IN  IF BeyondI64(n) THEN js_input = BigInt(i64_MAX)
            ELSE IF n.n \in {"pos", "neg"} THEN IsExactInteger(js_input, n.big)
            ELSE IF n.d.k = "wide" \/ n.d.f = 0
                 THEN IsExactInteger(js_input, BigOfDouble(n.d))
            ELSE js_input = Number(n.d)


---------------------------------------------------------------------------
(* v8_to_json_value on dynamic values of every shape.                      *)

\* a finished v8_to_json_value on a dynamic value given by the caller
TreeDecoded == pc = "done" /\ op = "v8_to_json"

\* the values an array or an object holds: the slots that are values
Held(v) ==
    IF v.tag = "array" THEN {v.elems[j] : j \in 1..Len(v.elems)} \ {Hole, Thrower}
    ELSE IF v.tag = "object"
    THEN {v.props[j].val : j \in 1..Len(v.props)} \ {Hole, Thrower}
    ELSE {}

IsUnsupportedShape(v) == v.tag \in {"function", "symbol"}

\* v or a value held within it, at any depth, is a function or a symbol
RECURSIVE HoldsUnsupported(_)
HoldsUnsupported(v) == IsUnsupportedShape(v) \/ \E e \in Held(v) : HoldsUnsupported(e)

\* C21: v8_to_json_value fails with UnsupportedValueType for a function or a
\* symbol, at top level and as an array element or an object property
C21_UnsupportedShapes ==
    TreeDecoded /\ HoldsUnsupported(js_input) => ret = Err(UnsupportedValueType)

---------------------------------------------------------------------------
(* Failures of nested decodes.                                             *)

\* the type whose decoder the access of field f invokes
InnerType(f) == IF f.ty.k = "Option" THEN f.ty.of ELSE f.ty

\* the values a text-keyed map or a data object holds, in the order
\* try_as_hashmap visits them
ValuesOf(v) ==
    IF v.tag = "map" THEN [j \in 1..Len(v.entries) |-> v.entries[j].val]
    ELSE LET keys == get_own_property_names(v).v
         IN  [j \in 1..length(keys) |-> get_value(v, keys.elems[j]).v]

\* the values the readable indices of an array hold, in index order
ElementsOf(a) ==
    LET readable == ReadableBelow(a, length(a))
    IN  [j \in 1..Len(readable) |-> get_index(a, readable[j]).v]

\* r is the error of the first of vs that the decoder of T rejects
FailsFirst(T, vs, r) ==
    \E j \in 1..Len(vs) :
        /\ r = TryFromValue(T, vs[j])
        /\ ~r.ok
        /\ \A q \in 1..(j - 1) : TryFromValue(T, vs[q]).ok

\* a finished call of one of the field accessors
DecodedField == pc = "done" /\ op \in {"get_field_as", "get_optional_field_as"}

\* C22: in a nested decode (a record field, a sequence, the values of a
\* mapping, an optional) the error the outer decode returns is exactly the
\* error of the first inner decode that fails, and no decoder is invoked
\* after that failure.
C22_FailFastVerbatim ==
    /\ (DecodedRecord /\ ~ret.ok /\ log # <<>>) =>
          LET f == ty.fields[Len(log)]
              a == quote_get_field_as(f, js_input)
          IN  /\ PriorOk(Len(log))
              /\ ret = a.r
              /\ a.calls # <<>> =>
                    /\ ret = TryFromValue(InnerType(f), a.calls[1])
                    /\ calls # <<>>
                    /\ calls[Len(calls)] = a.calls[1]
    /\ (DecodedField /\ ~ret.ok /\ calls # <<>>) =>
          /\ Len(calls) = 1
          /\ ret = TryFromValue(ty, calls[1])
    /\ (DecodedVec /\ ~ret.ok /\ is_array(js_input)) =>
          /\ calls # <<>>
          /\ ret = TryFromValue(ty.of, calls[Len(calls)])
          /\ \A k \in 1..(Len(calls) - 1) : TryFromValue(ty.of, calls[k]).ok
          /\ calls = SubSeq(ElementsOf(js_input), 1, Len(calls))
    /\ (pc = "done" /\ op = "try_from_value" /\ ty.k = "Vec" /\ ~ret.ok
            /\ is_array(js_input)) =>
          FailsFirst(ty.of, ElementsOf(js_input), ret)
    /\ (DecodedMap /\ ~ret.ok /\ (IsTextKeyedMap(js_input) \/ IsDataObject(js_input))) =>
          FailsFirst(ty.of, ValuesOf(js_input), ret)
    /\ (DecodedOption /\ ~ret.ok) =>
          /\ ret = TryFromValue(ty.of, js_input)
          /\ calls = <<js_input>>

\* the decode of a record whose field holds a record has returned the
\* FieldNotFound of the inner record's field
C22_Witness ==
    /\ DecodedRecord
    /\ ty = ParentObject
    /\ ret = Err(FieldNotFound("avg"))
    /\ calls # <<>>
    /\ ret = TryFromValue(SimpleObject, calls[Len(calls)])

---------------------------------------------------------------------------
(* The 32-bit unsigned decode of text.                                     *)

\* the text of a negative integer within the signed 64-bit range
IsNegativeIntegerText(s) ==
    /\ Len(s) >= 2
    /\ SubSeq(s, 1, 1) = "-"
    /\ AllDigits(SubSeq(s, 2, Len(s)))
    /\ MagCmp(MagOfDigits(SubSeq(s, 2, Len(s))), <<>>) > 0
    /\ MagCmp(MagOfDigits(SubSeq(s, 2, Len(s))), Pow2_63) <= 0

\* digits, a point, digits
IsFractionalText(s) ==
    \E j \in 2..(Len(s) - 1) :
        /\ SubSeq(s, j, j) = "."
        /\ AllDigits(SubSeq(s, 1, j - 1))
        /\ AllDigits(SubSeq(s, j + 1, Len(s)))

\* C23: the 32-bit unsigned decode gives 0 for the empty text, for null
\* and for undefined, and its value for the text of a non-negative integer
\* below 2^32; it fails for the text of a negative integer (within the
\* signed 64-bit range: OutOfRange) and for a fractional text (ExpectedU32).
C23_U32FromText ==
    DecodedScalar(T_u32) =>
        /\ is_null_or_undefined(js_input) => ret = Ok(BigZero)
        /\ js_input.tag = "string" =>
              /\ js_input.s = "" => ret = Ok(BigZero)
              /\ (js_input.s # "" /\ AllDigits(js_input.s)
                    /\ MagCmp(MagOfDigits(js_input.s), Pow2_32) < 0) =>
                    ret = Ok(MkBig(FALSE, MagOfDigits(js_input.s)))
              /\ IsNegativeIntegerText(js_input.s) => ret = Err(OutOfRange)
              /\ IsFractionalText(js_input.s) => ret = Err(ExpectedU32)

\* the text "-10" was decoded and rejected
C23_Witness ==
    /\ DecodedScalar(T_u32)
    /\ js_input = String("-10")
    /\ ~ret.ok

---------------------------------------------------------------------------
(* A tree object as a mapping of text to text.                             *)

\* a finished decode, as a mapping of text to text, of an encoded tree value
JsonAsHashMap == pc = "done" /\ op = "json_as_hashmap"

\* the text the engine prints the double nearest to an unsigned integer as
TextOfDouble(u) == NumberToString(DoubleOfBig(MkBig(FALSE, RoundToDouble(u.mag))))

---------------------------------------------------------------------------
(* The walk of v8_to_json_value over objects and arrays.                   *)

\* the tree value of what a lookup gave: Null when it gave nothing
TreeOfLookup(got) == IF got.some THEN v8_to_json_value(got.v) ELSE Ok(JNull)

\* C25: v8_to_json_value converts a plain object into a tree Object with
\* one entry for each own enumerable property (the key the property name,
\* the value the conversion of the property's value) and no entry for a
\* property the object only inherits; an array becomes a tree Array of the
\* same length, element i the conversion of the element at index i.
C25_ObjectAndArrayWalk ==
    (TreeDecoded /\ ret.ok) =>
        /\ js_input.tag = "object" =>
              /\ ret.val.j = "object"
              /\ DOMAIN ret.val.members = OwnEnumerableKeys(js_input)
              /\ \A k \in DOMAIN ret.val.members :
                    Ok(ret.val.members[k]) = v8_to_json_value(get(js_input, k).v)
              /\ \A k \in InheritedOnlyKeys(js_input) : k \notin DOMAIN ret.val.members
        /\ js_input.tag = "array" =>
              /\ ret.val.j = "array"
              /\ Len(ret.val.elems) = length(js_input)
              /\ \A i \in 0..(length(js_input) - 1) :
                    Ok(ret.val.elems[i + 1]) = TreeOfLookup(get_index(js_input, i))

---------------------------------------------------------------------------
(* The elements of a decoded sequence.                                     *)

\* a finished decode of a sequence that succeeded, step by step or through
\* T::try_from_value
DecodedSequenceOk ==
    /\ pc = "done"
    /\ op \in {"try_as_vec", "try_from_value"}
    /\ ty.k = "Vec"
    /\ ret.ok

\* C26 as stated: a decoded sequence has as many elements as the array's
\* length and element i is the decode of the array's element at index i,
\* also when a lookup returns nothing.
C26_NoIndexSkipped ==
    DecodedSequenceOk =>
        /\ Len(ret.val) = length(js_input)
        /\ \A i \in 0..(length(js_input) - 1) :
              /\ get_index(js_input, i).some
              /\ Ok(ret.val[i + 1]) = TryFromValue(ty.of, get_index(js_input, i).v)

\* C26, amended: a decoded sequence has one element for each index whose
\* lookup gives a value, in index order, each the decode of that index's
\* element; an index whose lookup gives nothing is skipped.  When every
\* lookup gives a value the sequence has the array's length and element i
\* is the decode of the element at index i.
C26_SequenceOrder ==
    DecodedSequenceOk =>
        LET readable == ReadableBelow(js_input, length(js_input))
        IN  /\ Len(ret.val) = Len(readable)
            /\ \A k \in 1..Len(readable) :
                  Ok(ret.val[k]) = TryFromValue(ty.of, get_index(js_input, readable[k]).v)
            /\ Len(readable) = length(js_input) =>
                  \A i \in 0..(length(js_input) - 1) :
                      Ok(ret.val[i + 1]) = TryFromValue(ty.of, get_index(js_input, i).v)

\* an array of two slots, the first one unreadable, was decoded to a
\* sequence of one element
C26_Witness ==
    /\ DecodedSequenceOk
    /\ op = "try_as_vec"
    /\ length(js_input) = 2
    /\ ~get_index(js_input, 0).some
    /\ Len(ret.val) = 1

\* two different elements were decoded in their order
C26_WitnessOrder ==
    /\ DecodedSequenceOk
    /\ op = "try_as_vec"
    /\ ty.of = T_i32
    /\ ret.val = <<1, 2>>

---------------------------------------------------------------------------
(* The 64-bit signed decode.                                               *)

\* the residue of a wide integer modulo 2^64
Residue64(b) ==
    IF ~b.neg THEN MagMod(b.mag, Pow2_64)
    ELSE MagMod(MagSub(Pow2_64, MagMod(b.mag, Pow2_64)), Pow2_64)

InI64(b) == ~BigLess(b, i64_MIN) /\ ~BigLess(i64_MAX, b)

\* C27: the 64-bit signed decode never reports OutOfRange; it fails, with
\* ExpectedI64, exactly when the engine's coercion to a big integer gives
\* nothing; otherwise it succeeds with the integer of the signed 64-bit
\* range that equals the coerced integer modulo 2^64 (the integer itself
\* when it lies in the range).
C27_I64Wraps ==
    DecodedScalar(T_i64) =>
        /\ ret # Err(OutOfRange)
        /\ ~ret.ok <=> ~to_big_int(js_input).some
        /\ ~ret.ok => ret = Err(ExpectedI64)
        /\ ret.ok =>
              /\ InI64(ret.val)
              /\ Residue64(ret.val) = Residue64(to_big_int(js_input).v)
              /\ InI64(to_big_int(js_input).v) => ret.val = to_big_int(js_input).v
        /\ js_input = BigInt(u64_MAX) => ret = Ok(BigOfInt(-1))
        /\ js_input = BigInt(MkBig(FALSE, Pow2_63)) => ret = Ok(i64_MIN)

\* the big integer 2^64 + 5 was decoded to 5
C27_Witness ==
    /\ DecodedScalar(T_i64)
    /\ js_input = BigInt(Beyond64)
    /\ ret = Ok(BigOfInt(5))

---------------------------------------------------------------------------
(* The classification of v8_to_json_value.                                 *)

\* a finished v8_to_json_value, on a value of the caller or of json_to_v8
TreeConverted == pc = "done" /\ op \in {"v8_to_json", "json_round_trip"}

\* the tree number that holds an integer
IntegerTree(b) == JNumber(IF b.neg THEN NegInt(b) ELSE PosInt(b))

\* what the claim and its amendment share: text, integral numbers of the
\* 32-bit ranges, big integers, booleans, null, arrays and objects
ClassifiedByTag ==
    /\ is_string(js_input) => ret = Ok(JString(js_input.s))
    /\ (is_int32(js_input) \/ is_uint32(js_input)) =>
          ret = Ok(IntegerTree(BigOfDouble(js_input.num)))
    /\ is_big_int(js_input) =>
          /\ ret.ok
          /\ ret.val.j = "number"
          /\ ret.val.n.n \in {"pos", "neg"}
          /\ InI64(ret.val.n.big)
          /\ Residue64(ret.val.n.big) = Residue64(js_input.big)
    /\ is_boolean(js_input) => ret = Ok(JBool(js_input.b))
    /\ is_null(js_input) => ret = Ok(JNull)
    /\ (is_array(js_input) /\ ret.ok) => ret.val.j = "array"
    /\ (js_input.tag \in {"object", "map", "function"} /\ ret.ok) => ret.val.j = "object"

\* C28 as stated: the first matching tag decides, and a number that is not
\* an integer of the int32 or uint32 range becomes a floating tree Number.
C28_ClassificationAsStated ==
    TreeConverted =>
        /\ ClassifiedByTag
        /\ (is_number(js_input) /\ ~is_int32(js_input) /\ ~is_uint32(js_input)) =>
              ret = Ok(JNumber(Float(js_input.num)))

\* C28, amended: the first matching tag decides; a number that is not an
\* integer of the int32 or uint32 range becomes a floating tree Number when
\* it is finite and tree Null when it is NaN.
C28_Classification ==
    TreeConverted =>
        /\ ClassifiedByTag
        /\ (is_number(js_input) /\ ~is_int32(js_input) /\ ~is_uint32(js_input)) =>
              ret = Ok(IF js_input.num.k = "nan" THEN JNull
                       ELSE JNumber(Float(js_input.num)))

\* NaN was converted to tree Null
C28_Witness ==
    /\ TreeConverted
    /\ js_input = Number(NaN)
    /\ ret = Ok(JNull)

\* an integer of the uint32 range beyond int32 became an integer tree Number
C28_WitnessUint32 ==
    /\ TreeConverted
    /\ js_input = Number(Wide(u32_MAX))
    /\ ret = Ok(JNumber(PosInt(u32_MAX)))

---------------------------------------------------------------------------
(* null, undefined and lookups that give nothing in v8_to_json_value.      *)

\* the array has an index whose lookup gives undefined (a hole included)
HasUndefinedElement(a) ==
    \E i \in 0..(length(a) - 1) : get_index(a, i) = Some(Undefined)

\* the plain object has an own enumerable property that reads as undefined,
\* or one whose lookup gives nothing
HasUndefinedProperty(o) ==
    \E j \in 1..Len(o.props) :
        Enumerable(o.props[j]) /\ ReadSlot(o.props[j].val) = Some(Undefined)
HasUnreadableProperty(o) ==
    \E j \in 1..Len(o.props) : Enumerable(o.props[j]) /\ ~ReadSlot(o.props[j].val).some

\* C29: v8_to_json_value gives tree Null for null and fails with
\* UnsupportedValueType for undefined; an array with an undefined element
\* and an object with an undefined property fail as a whole; only an array
\* index whose lookup gives nothing is replaced by tree Null (a property
\* whose lookup gives nothing fails the conversion).
C29_NullAndUndefined ==
    TreeDecoded =>
        /\ js_input = Null => ret = Ok(JNull)
        /\ js_input = Undefined => ret = Err(UnsupportedValueType)
        /\ (is_array(js_input) /\ HasUndefinedElement(js_input)) => ~ret.ok
        /\ (js_input.tag = "object" /\ HasUndefinedProperty(js_input)) => ~ret.ok
        /\ (js_input.tag = "object" /\ HasUnreadableProperty(js_input)) => ~ret.ok
        /\ (is_array(js_input) /\ ret.ok) =>
              \A i \in 0..(length(js_input) - 1) :
                  /\ ~get_index(js_input, i).some => ret.val.elems[i + 1] = JNull
                  /\ ret.val.elems[i + 1] = JNull =>
                        \/ ~get_index(js_input, i).some
                        \/ v8_to_json_value(get_index(js_input, i).v) = Ok(JNull)
        /\ (js_input = Array(<<Undefined>>) \/ js_input = Array(<<Hole>>)) =>
              ret = Err(UnsupportedValueType)

\* an array whose first lookup gives nothing and whose second element is
\* null became the tree array of two Nulls
C29_Witness ==
    /\ TreeDecoded
    /\ js_input = Array(<<Thrower, Null>>)
    /\ ret = Ok(JArray(<<JNull, JNull>>))

\* an object whose property is undefined failed with UnsupportedValueType
C29_WitnessProperty ==
    /\ TreeDecoded
    /\ js_input = Object(<<[key |-> "b", val |-> Undefined]>>, <<>>)
    /\ ret = Err(UnsupportedValueType)

====
